---- MODULE Spec2Model ----
(***************************************************************************)
(* Static hosting on Convex: the asset registry of the component           *)
(* (src/src/component/lib.ts), the deploy orchestrator of the upload CLI   *)
(* (src/src/cli/upload.ts) and the storage backends they drive.            *)
(*                                                                         *)
(* Every Convex query and mutation runs as one serializable transaction,   *)
(* so each handler of lib.ts is one atomic action here.  The CLI is one    *)
(* JavaScript control flow: it runs synchronously between two awaits, and  *)
(* the settlement of a promise together with the continuation that awaits  *)
(* it is one step.                                                         *)
(***************************************************************************)
EXTENDS Integers, Sequences, FiniteSets, TLC

\* ------------------------------------------------------------------------
\* Bounds of the model
\* ------------------------------------------------------------------------
MaxRuns == 2          \* deploy runs per behaviour; also the deployment ids
MaxConcurrency == 2   \* values of --concurrency that are tried
MaxLibIds == 2        \* storage / blob ids handed to direct registry calls
MaxClock == 6         \* values of Date.now() seen by direct pointer calls
MaxLoads == 2         \* page loads of the browser per behaviour

\* null / undefined of the source: an optional field that is not set
Null == 0

\* the files a dist directory can hold; getMimeType gives the content type
Paths == {"/index.html", "/app.js", "/logo.png"}
PathOrder == <<"/index.html", "/app.js", "/logo.png">>
HtmlType == "text/html; charset=utf-8"
JsType == "application/javascript; charset=utf-8"
PngType == "image/png"
\* the paths, deployments and content types handed to direct registry calls
LibPaths == {"/index.html", "/app.js"}
LibDeploymentIds == {1, 2}
ContentTypes == {HtmlType, JsType}
DeploymentIds == 1..MaxRuns

VARIABLES
    staticAssets,    \* table staticAssets: rows in insertion (_creationTime) order
    deploymentInfo,  \* table deploymentInfo: rows in insertion order
    storage,         \* storage ids that exist in the app's block storage
    cdn,             \* blob ids that exist in the CDN blob store
    clock,           \* Date.now() of the backend
    pc,              \* position of the CLI's main()
    runs,            \* deploy runs started so far
    deploymentId,    \* randomUUID() of the current run
    files,           \* collectFiles(distDir): sequence of paths
    useCdn,          \* --cdn
    concurrency,     \* --concurrency
    idx,             \* loop index of the running upload loop
    pending,         \* the Set pending of the running upload loop (indexes)
    storageIds,      \* the array storageIds of the storage phase
    allAssets,       \* the array allAssets
    oldBlobIds,      \* blobIds of the gc result, as main() holds them
    prior,           \* paths that had a row when the current run started
    stoppedAt,       \* where the current run was when it failed or was killed
    failure,         \* a transfer or a registration call of the run has failed
    lastCall,        \* the registry call made last by a direct caller
    ret,             \* and what it returned
    request,         \* the HTTP request a handler of the app is serving
    client,          \* the page of a browser that shows UpdateBanner
    other            \* a second CLI process: its main() while it is not
                     \* the one taking steps

backendVars == <<staticAssets, deploymentInfo, storage, cdn, clock>>
runVars == <<pc, runs, deploymentId, files, useCdn, concurrency, idx, pending,
             storageIds, allAssets, oldBlobIds, prior, stoppedAt, failure>>
libVars == <<lastCall, ret>>
siteVars == <<request, client, other>>
vars == <<staticAssets, deploymentInfo, storage, cdn, clock,
          pc, runs, deploymentId, files, useCdn, concurrency, idx, pending,
          storageIds, allAssets, oldBlobIds, prior, stoppedAt, failure,
          lastCall, ret, request, client, other>>

\* ------------------------------------------------------------------------
\* The component: src/src/component/lib.ts
\* ------------------------------------------------------------------------
NullDoc == [isNull |-> TRUE]
UniqueError == [error |-> "unique() returned more than one result"]

RECURSIVE SeqToSet(_)
SeqToSet(s) == IF s = <<>> THEN {} ELSE {Head(s)} \cup SeqToSet(Tail(s))

\* rows of a table selected by the index by_path
ByPath(table, p) == SelectSeq(table, LAMBDA r : r.path = p)

\* query getByPath: .withIndex("by_path", eq(path)).unique()
GetByPath(table, p) ==
    LET m == ByPath(table, p)
    IN  IF Len(m) = 0 THEN NullDoc
        ELSE IF Len(m) = 1 THEN m[1]
        ELSE UniqueError

\* ctx.db.delete(_id) of the row at position k
DeleteAt(table, k) ==
    SubSeq(table, 1, k - 1) \o SubSeq(table, k + 1, Len(table))

\* position of the one row with this path
IndexOfPath(table, p) == CHOOSE k \in 1..Len(table) : table[k].path = p

\* the document ctx.db.insert stores: an argument that is falsy is left out
NewDoc(args) ==
    [path |-> args.path,
     storageId |-> IF args.storageId # Null THEN args.storageId ELSE Null,
     blobId |-> IF args.blobId # Null THEN args.blobId ELSE Null,
     contentType |-> args.contentType,
     deploymentId |-> args.deploymentId]

\* recordAsset that inserts without deleting the existing row
RecordAsset_KeepsOld(table, args) ==
    LET existing == GetByPath(table, args.path)
    IN  [table |-> Append(table, NewDoc(args)),
         threw |-> FALSE,
         ret |-> IF existing \in {NullDoc, UniqueError}
                 THEN [oldStorageId |-> Null, oldBlobId |-> Null]
                 ELSE [oldStorageId |-> existing.storageId,
                       oldBlobId |-> existing.blobId]]

\* recordAsset that reads the old ids after the replacement
RecordAsset_ReturnsNew(table, args) ==
    LET existing == GetByPath(table, args.path)
        doc == NewDoc(args)
    IN  IF existing = UniqueError
        THEN [table |-> table, threw |-> TRUE,
              ret |-> [oldStorageId |-> Null, oldBlobId |-> Null]]
        ELSE IF existing # NullDoc
        THEN [table |-> Append(DeleteAt(table, IndexOfPath(table, args.path)),
                               doc),
              threw |-> FALSE,
              ret |-> [oldStorageId |-> doc.storageId,
                       oldBlobId |-> doc.blobId]]
        ELSE [table |-> Append(table, doc),
              threw |-> FALSE,
              ret |-> [oldStorageId |-> Null, oldBlobId |-> Null]]

\* recordAsset that inserts only when there was no row at the path
RecordAsset_DeleteOrInsert(table, args) ==
    LET existing == GetByPath(table, args.path)
    IN  IF existing = UniqueError
        THEN [table |-> table, threw |-> TRUE,
              ret |-> [oldStorageId |-> Null, oldBlobId |-> Null]]
        ELSE IF existing # NullDoc
        THEN [table |-> DeleteAt(table, IndexOfPath(table, args.path)),
              threw |-> FALSE,
              ret |-> [oldStorageId |-> existing.storageId,
                       oldBlobId |-> existing.blobId]]
        ELSE [table |-> Append(table, NewDoc(args)),
              threw |-> FALSE,
              ret |-> [oldStorageId |-> Null, oldBlobId |-> Null]]

\* recordAsset that replaces the first row of the table, whatever its path
RecordAsset_AnyPath(table, args) ==
    IF table # <<>>
    THEN [table |-> Append(Tail(table), NewDoc(args)),
          threw |-> FALSE,
          ret |-> [oldStorageId |-> Head(table).storageId,
                   oldBlobId |-> Head(table).blobId]]
    ELSE [table |-> Append(table, NewDoc(args)),
          threw |-> FALSE,
          ret |-> [oldStorageId |-> Null, oldBlobId |-> Null]]

\* mutation recordAsset: result is the table afterwards and the return value
RecordAsset(table, args) ==
    LET existing == GetByPath(table, args.path)
    IN  IF existing = UniqueError
        THEN [table |-> table, threw |-> TRUE,
              ret |-> [oldStorageId |-> Null, oldBlobId |-> Null]]
        ELSE IF existing # NullDoc
        THEN [table |-> Append(DeleteAt(table, IndexOfPath(table, args.path)),
                               NewDoc(args)),
              threw |-> FALSE,
              ret |-> [oldStorageId |-> existing.storageId,
                       oldBlobId |-> existing.blobId]]
        ELSE [table |-> Append(table, NewDoc(args)),
              threw |-> FALSE,
              ret |-> [oldStorageId |-> Null, oldBlobId |-> Null]]

\* the loop of gcOldAssets over the collected rows, from row k on
RECURSIVE GcLoop(_, _, _, _)
GcLoop(oldAssets, k, currentDeploymentId, acc) ==
    IF k > Len(oldAssets) THEN acc
    ELSE LET asset == oldAssets[k]
         IN  IF asset.deploymentId # currentDeploymentId
             THEN GcLoop(oldAssets, k + 1, currentDeploymentId,
                    [table |-> SelectSeq(acc.table, LAMBDA r : r # asset),
                     storageIds |-> IF asset.storageId # Null
                                    THEN Append(acc.storageIds, asset.storageId)
                                    ELSE acc.storageIds,
                     blobIds |-> IF asset.blobId # Null
                                 THEN Append(acc.blobIds, asset.blobId)
                                 ELSE acc.blobIds])
             ELSE GcLoop(oldAssets, k + 1, currentDeploymentId, acc)

\* the loop of deleteAllAssets
RECURSIVE DeleteAllLoop(_, _, _)
DeleteAllLoop(assets, k, acc) ==
    IF k > Len(assets) THEN acc
    ELSE LET asset == assets[k]
         IN  DeleteAllLoop(assets, k + 1,
                [table |-> SelectSeq(acc.table, LAMBDA r : r # asset),
                 storageIds |-> IF asset.storageId # Null
                                THEN Append(acc.storageIds, asset.storageId)
                                ELSE acc.storageIds,
                 blobIds |-> IF asset.blobId # Null
                             THEN Append(acc.blobIds, asset.blobId)
                             ELSE acc.blobIds])

\* internal mutation deleteAllAssets
DeleteAllAssets(table) ==
    DeleteAllLoop(table, 1,
                  [table |-> table, storageIds |-> <<>>, blobIds |-> <<>>])

\* gcOldAssets whose loop starts one row late
GcOldAssets_SkipsFirst(table, currentDeploymentId) ==
    GcLoop(table, 2, currentDeploymentId,
           [table |-> table, storageIds |-> <<>>, blobIds |-> <<>>])

\* gcOldAssets that collects the ids but never deletes a row
GcOldAssets_NoDelete(table, currentDeploymentId) ==
    [GcLoop(table, 1, currentDeploymentId,
            [table |-> table, storageIds |-> <<>>, blobIds |-> <<>>])
     EXCEPT !.table = table]

\* gcOldAssets that reports the blob ids in the list of storage ids
GcOldAssets_OneList(table, currentDeploymentId) ==
    LET r == GcLoop(table, 1, currentDeploymentId,
                    [table |-> table, storageIds |-> <<>>, blobIds |-> <<>>])
    IN  [r EXCEPT !.storageIds = r.storageIds \o r.blobIds,
                  !.blobIds = <<>>]

\* gcOldAssets that collects the ids of every row, stale or not
GcOldAssets_ReleasesAll(table, currentDeploymentId) ==
    LET r == GcLoop(table, 1, currentDeploymentId,
                    [table |-> table, storageIds |-> <<>>, blobIds |-> <<>>])
        all == DeleteAllLoop(table, 1,
                    [table |-> table, storageIds |-> <<>>, blobIds |-> <<>>])
    IN  [r EXCEPT !.storageIds = all.storageIds, !.blobIds = all.blobIds]

\* mutation gcOldAssets
GcOldAssets(table, currentDeploymentId) ==
    GcLoop(table, 1, currentDeploymentId,
           [table |-> table, storageIds |-> <<>>, blobIds |-> <<>>])

\* query getCurrentDeployment: .first()
GetCurrentDeployment(info) == IF Len(info) = 0 THEN NullDoc ELSE info[1]

\* setCurrentDeployment that leaves an existing row as it is
SetCurrentDeployment_NoPatch(info, d, now) ==
    IF GetCurrentDeployment(info) # NullDoc
    THEN info
    ELSE Append(info, [currentDeploymentId |-> d, deployedAt |-> now])

\* setCurrentDeployment that inserts a row on every call
SetCurrentDeployment_AlwaysInsert(info, d, now) ==
    Append(info, [currentDeploymentId |-> d, deployedAt |-> now])

\* mutation setCurrentDeployment: patch the first row, or insert one
SetCurrentDeployment(info, d, now) ==
    IF GetCurrentDeployment(info) # NullDoc
    THEN [info EXCEPT ![1] = [currentDeploymentId |-> d, deployedAt |-> now]]
    ELSE Append(info, [currentDeploymentId |-> d, deployedAt |-> now])

\* ------------------------------------------------------------------------
\* Initial state: a fresh backend, no deploy run, no call made
\* ------------------------------------------------------------------------
NoCall == [op |-> "none", path |-> "", storageId |-> Null, blobId |-> Null,
           contentType |-> "", deploymentId |-> Null, repeat |-> FALSE]
NoRet == [oldStorageId |-> Null, oldBlobId |-> Null,
          storageIds |-> <<>>, blobIds |-> <<>>, currentDeploymentId |-> Null]
\* a CLI process that has not started a deploy
IdleProcess ==
    [pc |-> "idle", deploymentId |-> Null, files |-> <<>>, useCdn |-> FALSE,
     concurrency |-> 1, idx |-> 0, pending |-> {}, storageIds |-> <<>>,
     allAssets |-> <<>>, oldBlobIds |-> <<>>, prior |-> {}, stoppedAt |-> "",
     failure |-> FALSE]
\* no request is being served
NoRequest == [at |-> "none"]
\* useQuery before the first result has arrived: undefined
Loading == [loading |-> TRUE]
\* a page that has just been loaded: the first render of UpdateBanner
\* (src/src/react/index.tsx), its effect not yet run
FreshPage(dismissable, loads) ==
    [deployment |-> Loading,
     initialDeploymentId |-> Null,
     updateAvailable |-> FALSE,
     effectPending |-> TRUE,
     dismissable |-> dismissable,
     loads |-> loads,
     lastEvent |-> "load"]

Init ==
    /\ staticAssets = <<>>
    /\ deploymentInfo = <<>>
    /\ storage = {}
    /\ cdn = {}
    /\ clock = 0
    /\ pc = "idle"
    /\ runs = 0
    /\ deploymentId = Null
    /\ files = <<>>
    /\ useCdn = FALSE
    /\ concurrency = 1
    /\ idx = 0
    /\ pending = {}
    /\ storageIds = <<>>
    /\ allAssets = <<>>
    /\ oldBlobIds = <<>>
    /\ prior = {}
    /\ stoppedAt = ""
    /\ failure = FALSE
    /\ lastCall = NoCall
    /\ ret = NoRet
    /\ request = NoRequest
    /\ other = IdleProcess
    /\ client = FreshPage(TRUE, 1)

\* ------------------------------------------------------------------------
\* Direct callers of the component: any sequence of registry mutations
\* ------------------------------------------------------------------------
LibIds == {Null} \cup (1..MaxLibIds)
\* the references a caller passes: a storageId, a blobId, neither, or both
LibRefs == {ref \in [storageId : LibIds, blobId : LibIds] :
              \/ ref.storageId = Null
              \/ ref.blobId = Null
              \/ ref.storageId = ref.blobId}

CallRecordAsset(p, sid, bid, ct, d) ==
    LET args == [path |-> p, storageId |-> sid, blobId |-> bid,
                 contentType |-> ct, deploymentId |-> d]
        r == RecordAsset(staticAssets, args)
    IN  /\ staticAssets' = r.table
        /\ lastCall' = [op |-> "recordAsset", path |-> p, storageId |-> sid,
                        blobId |-> bid, contentType |-> ct,
                        deploymentId |-> d, repeat |-> FALSE]
        /\ ret' = [NoRet EXCEPT !.oldStorageId = r.ret.oldStorageId,
                                !.oldBlobId = r.ret.oldBlobId]
        /\ UNCHANGED <<deploymentInfo, storage, cdn, clock>>
        /\ UNCHANGED <<runVars, siteVars>>

CallGcOldAssets(d) ==
    LET r == GcOldAssets(staticAssets, d)
    IN  /\ staticAssets' = r.table
        /\ lastCall' = [NoCall EXCEPT !.op = "gcOldAssets",
                                      !.deploymentId = d,
                                      !.repeat = (lastCall.op = "gcOldAssets"
                                                  /\ lastCall.deploymentId = d)]
        /\ ret' = [NoRet EXCEPT !.storageIds = r.storageIds,
                                !.blobIds = r.blobIds]
        /\ UNCHANGED <<deploymentInfo, storage, cdn, clock>>
        /\ UNCHANGED <<runVars, siteVars>>

CallDeleteAllAssets ==
    LET r == DeleteAllAssets(staticAssets)
    IN  /\ staticAssets' = r.table
        /\ lastCall' = [NoCall EXCEPT !.op = "deleteAllAssets"]
        /\ ret' = [NoRet EXCEPT !.storageIds = r.storageIds,
                                !.blobIds = r.blobIds]
        /\ UNCHANGED <<deploymentInfo, storage, cdn, clock>>
        /\ UNCHANGED <<runVars, siteVars>>

NextLib ==
    \/ \E p \in LibPaths, ref \in LibRefs, ct \in ContentTypes,
          d \in LibDeploymentIds :
            CallRecordAsset(p, ref.storageId, ref.blobId, ct, d)
    \/ \E d \in LibDeploymentIds : CallGcOldAssets(d)
    \/ CallDeleteAllAssets

SpecLib == Init /\ [][NextLib]_vars

\* ------------------------------------------------------------------------
\* The functions exposeUploadApi hands to the CLI.  They run in the app, own
\* the app's block storage and call the component.
\* ------------------------------------------------------------------------
\* recordAsset of the app: component recordAsset, then the replaced storage
\* object is deleted; the replaced blob id is handed back
ApiRecordAsset(table, store, args) ==
    LET r == RecordAsset(table, args)
    IN  [table |-> r.table,
         storage |-> store \ {r.ret.oldStorageId},
         ret |-> r.ret.oldBlobId]

\* recordAssets of the app: recordAsset for every entry, in order
RECURSIVE ApiRecordAssets(_, _, _)
ApiRecordAssets(table, store, assets) ==
    IF assets = <<>> THEN [table |-> table, storage |-> store]
    ELSE LET r == ApiRecordAsset(table, store, Head(assets))
         IN  ApiRecordAssets(r.table, r.storage, Tail(assets))

\* gcOldAssets of the app: component gcOldAssets, the swept storage objects
\* are deleted, and the deployment pointer is set to the given deployment
ApiGcOldAssets(table, info, store, currentDeploymentId, now) ==
    LET r == GcOldAssets(table, currentDeploymentId)
    IN  [table |-> r.table,
         storage |-> store \ SeqToSet(r.storageIds),
         info |-> SetCurrentDeployment(info, currentDeploymentId, now),
         ret |-> [deleted |-> Len(r.storageIds), blobIds |-> r.blobIds]]

\* deleteCdnBlobs: the blobs are deleted from the CDN blob store
DeleteCdnBlobs(blobs, blobIds) == blobs \ SeqToSet(blobIds)

\* ------------------------------------------------------------------------
\* The upload CLI: src/src/cli/upload.ts
\* ------------------------------------------------------------------------
DefaultConcurrency == 5

\* MIME_TYPES, for the extensions of the files of the model
MIME_TYPES == [html |-> HtmlType, js |-> JsType, png |-> PngType]
Extension == [p \in Paths |-> IF p = "/index.html" THEN "html"
                              ELSE IF p = "/app.js" THEN "js" ELSE "png"]
GetMimeType(p) ==
    IF Extension[p] \in DOMAIN MIME_TYPES THEN MIME_TYPES[Extension[p]]
    ELSE "application/octet-stream"

\* contentType.startsWith("text/html")
IsHtml(contentType) == contentType = HtmlType

\* collectFiles: the files of the dist directory, in directory order
RECURSIVE CollectFiles(_, _)
CollectFiles(order, present) ==
    IF order = <<>> THEN <<>>
    ELSE IF Head(order) \in present
         THEN <<[path |-> Head(order), contentType |-> GetMimeType(Head(order))]>>
              \o CollectFiles(Tail(order), present)
         ELSE CollectFiles(Tail(order), present)

\* the partition that sends every file to the CDN in --cdn mode
ToCdn_HtmlToo(file, cdnMode) == cdnMode

\* siteUrl is set exactly when --cdn is: main() exits before the upload if
\* --cdn is given and the site url cannot be determined
ToCdn(file, cdnMode) == cdnMode /\ ~IsHtml(file.contentType)
CdnFilesOf(fs, cdnMode) == SelectSeq(fs, LAMBDA f : ToCdn(f, cdnMode))
StorageFilesOf(fs, cdnMode) == SelectSeq(fs, LAMBDA f : ~ToCdn(f, cdnMode))
CdnFiles == CdnFilesOf(files, useCdn)
StorageFiles == StorageFilesOf(files, useCdn)

\* the upload loop that awaits only when the pool is over its size
RECURSIVE LoopAdvance_OneMore(_, _, _, _)
LoopAdvance_OneMore(i, pend, n, len) ==
    IF i > len THEN [idx |-> i, pending |-> pend, at |-> "all"]
    ELSE IF Cardinality(pend \cup {i}) > n
         THEN [idx |-> i + 1, pending |-> pend \cup {i}, at |-> "race"]
         ELSE LoopAdvance_OneMore(i + 1, pend \cup {i}, n, len)

\* the upload loop from index i on, with the set pending: tasks are started
\* until the pool is full (await Promise.race) or the files are used up
\* (await Promise.all)
RECURSIVE LoopAdvance(_, _, _, _)
LoopAdvance(i, pend, n, len) ==
    IF i > len THEN [idx |-> i, pending |-> pend, at |-> "all"]
    ELSE IF Cardinality(pend \cup {i}) >= n
         THEN [idx |-> i + 1, pending |-> pend \cup {i}, at |-> "race"]
         ELSE LoopAdvance(i + 1, pend \cup {i}, n, len)

StorageAssets(assets) == SelectSeq(assets, LAMBDA a : a.storageId # Null)
CdnAssets(assets) == SelectSeq(assets, LAMBDA a : a.blobId # Null)

\* Step 3: where uploadWithConcurrency goes once allAssets is complete
GoRecord(assets) ==
    /\ allAssets' = assets
    /\ idx' = 1
    /\ pending' = {}
    /\ pc' = IF assets = <<>> THEN "gc"
             ELSE IF StorageAssets(assets) # <<>> THEN "recordAssets"
             ELSE IF CdnAssets(assets) # <<>> THEN "recordAsset"
             ELSE "gc"

\* the CDN phase: its loop up to the first await
GoCdn(assets) ==
    IF CdnFiles # <<>>
    THEN LET a == LoopAdvance(1, {}, concurrency, Len(CdnFiles))
         IN  /\ allAssets' = assets
             /\ idx' = a.idx
             /\ pending' = a.pending
             /\ pc' = IF a.at = "race" THEN "cdnRace" ELSE "cdnAll"
    ELSE GoRecord(assets)

\* allAssets.push that pairs storage file k with the id of its neighbour
StorageEntries_Shifted(sids) ==
    [k \in 1..Len(StorageFiles) |->
        [path |-> StorageFiles[k].path,
         storageId |-> sids[(k % Len(StorageFiles)) + 1],
         blobId |-> Null,
         contentType |-> StorageFiles[k].contentType,
         deploymentId |-> deploymentId]]

\* allAssets.push for every storage file, once the storage phase is over
StorageEntries(sids) ==
    [k \in 1..Len(StorageFiles) |->
        [path |-> StorageFiles[k].path,
         storageId |-> sids[k],
         blobId |-> Null,
         contentType |-> StorageFiles[k].contentType,
         deploymentId |-> deploymentId]]

\* the storageId or blobId the backend answers to the upload of the file at
\* path p in this run: a value no other upload is answered with
FreshId(p) ==
    (deploymentId - 1) * Len(PathOrder)
        + (CHOOSE k \in 1..Len(PathOrder) : PathOrder[k] = p)

Running == pc \notin {"idle", "done", "failed", "crashed"}

\* the locals of uploadWithConcurrency and the size of its pool are gone once
\* it has returned or thrown or the process has ended
DropLocals ==
    /\ concurrency' = 1
    /\ idx' = 0
    /\ pending' = {}
    /\ storageIds' = <<>>
    /\ allAssets' = <<>>

\* main() up to the call of uploadWithConcurrency; a pool wider than the file
\* set starts every file at once, as a pool of the file set's size does
StartDeploy(present, cdnMode, n) ==
    /\ ~Running
    /\ runs < MaxRuns
    /\ n = 1 \/ n <= Cardinality(present)
    /\ runs' = runs + 1
    /\ deploymentId' = runs + 1
    /\ files' = CollectFiles(PathOrder, present)
    /\ useCdn' = cdnMode
    /\ concurrency' = n
    /\ idx' = 0
    /\ pending' = {}
    /\ storageIds' = <<>>
    /\ allAssets' = <<>>
    /\ oldBlobIds' = <<>>
    /\ prior' = {staticAssets[k].path : k \in 1..Len(staticAssets)}
    /\ stoppedAt' = ""
    /\ failure' = FALSE
    /\ pc' = "upload"
    /\ UNCHANGED backendVars
    /\ UNCHANGED <<libVars, siteVars>>

\* uploadWithConcurrency up to its first await
EnterUpload ==
    /\ pc = "upload"
    /\ IF StorageFiles # <<>>
       THEN /\ pc' = "genUrls"
            /\ UNCHANGED <<idx, pending, allAssets>>
       ELSE GoCdn(<<>>)
    /\ UNCHANGED <<runs, deploymentId, files, useCdn, concurrency, storageIds,
                   oldBlobIds, prior,
                   stoppedAt, failure>>
    /\ UNCHANGED backendVars
    /\ UNCHANGED <<libVars, siteVars>>

\* generateUploadUrls returns; the loop starts its first tasks
GenerateUploadUrlsOk ==
    /\ pc = "genUrls"
    /\ LET a == LoopAdvance(1, {}, concurrency, Len(StorageFiles))
       IN  /\ storageIds' = [k \in 1..Len(StorageFiles) |-> Null]
           /\ idx' = a.idx
           /\ pending' = a.pending
           /\ pc' = IF a.at = "race" THEN "storageRace" ELSE "storageAll"
    /\ UNCHANGED <<runs, deploymentId, files, useCdn, concurrency, allAssets,
                   oldBlobIds, prior,
                   stoppedAt, failure>>
    /\ UNCHANGED backendVars
    /\ UNCHANGED <<libVars, siteVars>>

\* a convex run call rejects: uploadWithConcurrency throws, main() exits 1
CallFails(at) ==
    /\ pc = at
    /\ pc' = "failed"
    /\ stoppedAt' = pc
    /\ failure' = (failure \/ at \in {"recordAssets", "recordAsset"})
    /\ DropLocals
    /\ UNCHANGED <<runs, deploymentId, files, useCdn, oldBlobIds, prior>>
    /\ UNCHANGED backendVars
    /\ UNCHANGED <<libVars, siteVars>>

GenerateUploadUrlsFails == CallFails("genUrls")

\* the continuation of the storage phase after task t has fulfilled
StorageTaskDone(t, sids) ==
    LET rest == pending \ {t}
    IN  IF pc = "storageRace"
        THEN LET a == LoopAdvance(idx, rest, concurrency, Len(StorageFiles))
             IN  IF a.at = "all" /\ a.pending = {}
                 THEN GoCdn(StorageEntries(sids))
                 ELSE /\ idx' = a.idx
                      /\ pending' = a.pending
                      /\ pc' = IF a.at = "race" THEN "storageRace"
                               ELSE "storageAll"
                      /\ UNCHANGED allAssets
        ELSE IF rest = {}
             THEN GoCdn(StorageEntries(sids))
             ELSE /\ pending' = rest
                  /\ UNCHANGED <<idx, pc, allAssets>>

\* the upload of storage file t answers with a storageId
StorageUploadOk(t) ==
    /\ pc \in {"storageRace", "storageAll"}
    /\ t \in pending
    /\ storage' = storage \cup {FreshId(StorageFiles[t].path)}
    /\ storageIds' = [storageIds EXCEPT
                         ![t] = FreshId(StorageFiles[t].path)]
    /\ StorageTaskDone(t, storageIds')
    /\ UNCHANGED <<runs, deploymentId, files, useCdn, concurrency, oldBlobIds,
                   prior,
                   stoppedAt, failure>>
    /\ UNCHANGED <<staticAssets, deploymentInfo, cdn, clock>>
    /\ UNCHANGED <<libVars, siteVars>>

\* the upload of storage file t answers with an error status and a JSON body
\* that has no storageId: response.ok is not looked at, storageIds[t] is
\* undefined and the task fulfils
StorageUploadNoStorageId(t) ==
    /\ pc \in {"storageRace", "storageAll"}
    /\ t \in pending
    /\ storageIds' = [storageIds EXCEPT ![t] = Null]
    /\ StorageTaskDone(t, storageIds')
    /\ failure' = TRUE
    /\ UNCHANGED <<runs, deploymentId, files, useCdn, concurrency, oldBlobIds,
                   prior, stoppedAt>>
    /\ UNCHANGED backendVars
    /\ UNCHANGED <<libVars, siteVars>>

\* fetch or response.json() of task t throws: Promise.race / Promise.all
\* rejects, uploadWithConcurrency throws, main() exits 1
UploadRejects(at, t) ==
    /\ pc \in at
    /\ t \in pending
    /\ pc' = "failed"
    /\ stoppedAt' = pc
    /\ failure' = TRUE
    /\ DropLocals
    /\ UNCHANGED <<runs, deploymentId, files, useCdn, oldBlobIds, prior>>
    /\ UNCHANGED backendVars
    /\ UNCHANGED <<libVars, siteVars>>

StorageUploadRejects(t) == UploadRejects({"storageRace", "storageAll"}, t)

\* the upload of CDN file t answers ok with a blobId
CdnUploadOk(t) ==
    /\ pc \in {"cdnRace", "cdnAll"}
    /\ t \in pending
    /\ cdn' = cdn \cup {FreshId(CdnFiles[t].path)}
    /\ LET assets == Append(allAssets,
                        [path |-> CdnFiles[t].path,
                         storageId |-> Null,
                         blobId |-> FreshId(CdnFiles[t].path),
                         contentType |-> CdnFiles[t].contentType,
                         deploymentId |-> deploymentId])
           rest == pending \ {t}
       IN  IF pc = "cdnRace"
           THEN LET a == LoopAdvance(idx, rest, concurrency, Len(CdnFiles))
                IN  IF a.at = "all" /\ a.pending = {}
                    THEN GoRecord(assets)
                    ELSE /\ allAssets' = assets
                         /\ idx' = a.idx
                         /\ pending' = a.pending
                         /\ pc' = IF a.at = "race" THEN "cdnRace" ELSE "cdnAll"
           ELSE IF rest = {}
                THEN GoRecord(assets)
                ELSE /\ allAssets' = assets
                     /\ pending' = rest
                     /\ UNCHANGED <<idx, pc>>
    /\ UNCHANGED <<runs, deploymentId, files, useCdn, concurrency, storageIds,
                   oldBlobIds, prior,
                   stoppedAt, failure>>
    /\ UNCHANGED <<staticAssets, deploymentInfo, storage, clock>>
    /\ UNCHANGED <<libVars, siteVars>>

\* the CDN upload of file t is not ok, or fetch throws
CdnUploadRejects(t) == UploadRejects({"cdnRace", "cdnAll"}, t)

\* recordAssets for the storage assets returns
RecordAssetsOk ==
    /\ pc = "recordAssets"
    /\ LET r == ApiRecordAssets(staticAssets, storage,
                                StorageAssets(allAssets))
       IN  /\ staticAssets' = r.table
           /\ storage' = r.storage
    /\ pc' = IF CdnAssets(allAssets) # <<>> THEN "recordAsset" ELSE "gc"
    /\ UNCHANGED <<runs, deploymentId, files, useCdn, concurrency, idx,
                   pending, storageIds, allAssets, oldBlobIds, prior,
                   stoppedAt, failure>>
    /\ UNCHANGED <<deploymentInfo, cdn, clock>>
    /\ UNCHANGED <<libVars, siteVars>>

RecordAssetsFails == CallFails("recordAssets")

\* recordAsset for the next CDN asset returns
RecordAssetOk ==
    /\ pc = "recordAsset"
    /\ LET r == ApiRecordAsset(staticAssets, storage,
                               CdnAssets(allAssets)[idx])
       IN  /\ staticAssets' = r.table
           /\ storage' = r.storage
    /\ idx' = idx + 1
    /\ pc' = IF idx < Len(CdnAssets(allAssets)) THEN "recordAsset" ELSE "gc"
    /\ UNCHANGED <<runs, deploymentId, files, useCdn, concurrency, pending,
                   storageIds, allAssets, oldBlobIds, prior,
                   stoppedAt, failure>>
    /\ UNCHANGED <<deploymentInfo, cdn, clock>>
    /\ UNCHANGED <<libVars, siteVars>>

RecordAssetFails == CallFails("recordAsset")

\* gcOldAssets(deploymentId) returns
GcOk ==
    /\ pc = "gc"
    /\ LET r == ApiGcOldAssets(staticAssets, deploymentInfo, storage,
                               deploymentId, clock + 1)
       IN  /\ staticAssets' = r.table
           /\ storage' = r.storage
           /\ deploymentInfo' = r.info
           /\ oldBlobIds' = r.ret.blobIds
           /\ pc' = IF Len(r.ret.blobIds) > 0 THEN "cdnDelete" ELSE "done"
    /\ clock' = clock + 1
    /\ DropLocals
    /\ UNCHANGED <<runs, deploymentId, files, useCdn, prior, stoppedAt,
                   failure>>
    /\ UNCHANGED cdn
    /\ UNCHANGED <<libVars, siteVars>>

\* the gcOldAssets call rejects: main() rejects, the process exits 1
GcFails == CallFails("gc")

\* deleteCdnBlobs(oldBlobIds) returns
DeleteCdnBlobsOk ==
    /\ pc = "cdnDelete"
    /\ cdn' = DeleteCdnBlobs(cdn, oldBlobIds)
    /\ pc' = "done"
    /\ UNCHANGED <<runs, deploymentId, files, useCdn, concurrency, idx,
                   pending, storageIds, allAssets, oldBlobIds, prior,
                   stoppedAt, failure>>
    /\ UNCHANGED <<staticAssets, deploymentInfo, storage, clock>>
    /\ UNCHANGED <<libVars, siteVars>>

\* deleteCdnBlobs rejects and the rejection ends main(): the process exits 1
DeleteCdnBlobsFails_Fatal == CallFails("cdnDelete")

\* deleteCdnBlobs rejects: a warning, main() goes on
DeleteCdnBlobsFails ==
    /\ pc = "cdnDelete"
    /\ pc' = "done"
    /\ UNCHANGED <<runs, deploymentId, files, useCdn, concurrency, idx,
                   pending, storageIds, allAssets, oldBlobIds, prior,
                   stoppedAt, failure>>
    /\ UNCHANGED backendVars
    /\ UNCHANGED <<libVars, siteVars>>

\* the CLI process is killed
Crash ==
    /\ Running
    /\ pc' = "crashed"
    /\ stoppedAt' = pc
    /\ DropLocals
    /\ UNCHANGED <<runs, deploymentId, files, useCdn, oldBlobIds, prior,
                   failure>>
    /\ UNCHANGED backendVars
    /\ UNCHANGED <<libVars, siteVars>>

Next ==
    \/ \E present \in SUBSET Paths, cdnMode \in BOOLEAN,
          n \in 1..MaxConcurrency : StartDeploy(present, cdnMode, n)
    \/ EnterUpload
    \/ GenerateUploadUrlsOk
    \/ GenerateUploadUrlsFails
    \/ \E t \in pending : StorageUploadOk(t)
    \/ \E t \in pending : StorageUploadNoStorageId(t)
    \/ \E t \in pending : StorageUploadRejects(t)
    \/ \E t \in pending : CdnUploadOk(t)
    \/ \E t \in pending : CdnUploadRejects(t)
    \/ RecordAssetsOk
    \/ RecordAssetsFails
    \/ RecordAssetOk
    \/ RecordAssetFails
    \/ GcOk
    \/ GcFails
    \/ DeleteCdnBlobsOk
    \/ DeleteCdnBlobsFails
    \/ Crash

Spec == Init /\ [][Next]_vars

\* ------------------------------------------------------------------------
\* Properties of the registry (SpecLib)
\* ------------------------------------------------------------------------
RowsAt(table, p) == Len(ByPath(table, p))
StepIs(op) == lastCall'.op = op /\ vars' # vars
Stale(table, d) == SelectSeq(table, LAMBDA r : r.deploymentId # d)
Current(table, d) == SelectSeq(table, LAMBDA r : r.deploymentId = d)
StorageIdsOf(rows) ==
    LET s == SelectSeq(rows, LAMBDA r : r.storageId # Null)
    IN  [k \in 1..Len(s) |-> s[k].storageId]
BlobIdsOf(rows) ==
    LET s == SelectSeq(rows, LAMBDA r : r.blobId # Null)
    IN  [k \in 1..Len(s) |-> s[k].blobId]

AtMostOneRowPerPath == \A p \in Paths : RowsAt(staticAssets, p) <= 1
ReplaceKeepsTheRow ==
    \A p \in Paths :
        (StepIs("recordAsset") /\ lastCall'.path = p
            /\ RowsAt(staticAssets, p) = 1)
        => RowsAt(staticAssets', p) = 1

\* C5: after any sequence of recordAsset, gcOldAssets and deleteAllAssets
\* calls every path has at most one row, and a recordAsset on a path that
\* has a row leaves that path with a row (never zero rows).
C5_OneRowPerPath == [](AtMostOneRowPerPath) /\ [][ReplaceKeepsTheRow]_vars

C5_Witness ==
    /\ lastCall.op = "recordAsset"
    /\ (ret.oldStorageId # Null \/ ret.oldBlobId # Null)
    /\ Len(staticAssets) = 2

\* C6: recordAsset(p, ...) returns the storageId / blobId of the row that was
\* at p before the call (nulls when there was none), and getByPath(p)
\* afterwards is the newly recorded reference, contentType and deploymentId.
C6_ReplaceCorrect ==
    [][StepIs("recordAsset") =>
        LET p == lastCall'.path
            before == ByPath(staticAssets, p)
        IN  /\ ret'.oldStorageId =
                    IF before = <<>> THEN Null ELSE before[1].storageId
            /\ ret'.oldBlobId =
                    IF before = <<>> THEN Null ELSE before[1].blobId
            /\ GetByPath(staticAssets', p) =
                    [path |-> p,
                     storageId |-> lastCall'.storageId,
                     blobId |-> lastCall'.blobId,
                     contentType |-> lastCall'.contentType,
                     deploymentId |-> lastCall'.deploymentId]]_vars

C6_Witness ==
    /\ lastCall.op = "recordAsset"
    /\ lastCall.blobId # Null
    /\ ret.oldBlobId # Null
    /\ ret.oldBlobId # lastCall.blobId
    /\ GetByPath(staticAssets, lastCall.path).blobId = lastCall.blobId

\* C7: gcOldAssets(d) deletes exactly the rows whose deploymentId differs
\* from d: every remaining row has deploymentId d, and the rows that had
\* deploymentId d are all still there, unchanged and in their order.
C7_GcDeletesExactlyStale ==
    [][StepIs("gcOldAssets") =>
        LET d == lastCall'.deploymentId
        IN  /\ \A k \in 1..Len(staticAssets') :
                    staticAssets'[k].deploymentId = d
            /\ staticAssets' = Current(staticAssets, d)]_vars

C7_Witness ==
    /\ lastCall.op = "gcOldAssets"
    /\ staticAssets # <<>>
    /\ (ret.storageIds # <<>> \/ ret.blobIds # <<>>)

\* C8: gcOldAssets returns exactly the references of the rows it deleted:
\* storageIds the storageId of every deleted row that has one, blobIds the
\* blobId of every deleted row that has one; both empty without stale rows.
C8_GcReturnsDeletedRefs ==
    [][StepIs("gcOldAssets") =>
        LET deleted == Stale(staticAssets, lastCall'.deploymentId)
        IN  /\ ret'.storageIds = StorageIdsOf(deleted)
            /\ ret'.blobIds = BlobIdsOf(deleted)
            /\ (deleted = <<>> =>
                    ret'.storageIds = <<>> /\ ret'.blobIds = <<>>)]_vars

C8_Witness ==
    /\ lastCall.op = "gcOldAssets"
    /\ ret.storageIds # <<>>
    /\ ret.blobIds # <<>>
    /\ ret.storageIds # ret.blobIds

\* C9: gcOldAssets(d) called again with no call in between returns empty
\* storageIds and blobIds and leaves the registry as it was.
C9_GcIdempotent ==
    [][(lastCall'.op = "gcOldAssets" /\ lastCall'.repeat) =>
        /\ ret'.storageIds = <<>>
        /\ ret'.blobIds = <<>>
        /\ staticAssets' = staticAssets]_vars

C9_Witness ==
    /\ lastCall.op = "gcOldAssets"
    /\ lastCall.repeat
    /\ staticAssets # <<>>

\* ------------------------------------------------------------------------
\* Properties of a deploy run (Spec)
\* ------------------------------------------------------------------------
FilePaths == {files[k].path : k \in 1..Len(files)}
RowPaths(table) == {table[k].path : k \in 1..Len(table)}
CurrentDeploymentId ==
    LET c == GetCurrentDeployment(deploymentInfo)
    IN  IF c = NullDoc THEN Null ELSE c.currentDeploymentId
RegisteredByRun(p) ==
    \E k \in 1..Len(staticAssets) :
        /\ staticAssets[k].path = p
        /\ staticAssets[k].deploymentId = deploymentId
BeforeSweepPcs == {"upload", "genUrls", "storageRace", "storageAll",
                   "cdnRace", "cdnAll", "recordAssets", "recordAsset", "gc"}
\* the sweep of the current run has not been called
BeforeSweep ==
    \/ pc \in BeforeSweepPcs
    \/ pc \in {"failed", "crashed"} /\ stoppedAt \in BeforeSweepPcs

\* C1: when main() calls gcOldAssets(deploymentId), every file of the run's
\* file set has been registered under that deploymentId.
C1_SweepAfterAllRegistered ==
    pc = "gc" => \A p \in FilePaths : RegisteredByRun(p)

\* C2: at every moment of a deploy run and after it, a path that had a row
\* when the run started and is in the run's file set has a row.
C2_NoNotFoundForKeptPaths ==
    pc # "idle" =>
        \A p \in prior \cap FilePaths : RowsAt(staticAssets, p) = 1

\* C3: as long as the sweep of a run has not been called, and when the run
\* stops there (failure or kill), every path that had a row before the run
\* has a row, and no step takes the row of a path away.
C3_PriorIntactBeforeSweep ==
    /\ [](BeforeSweep => \A p \in prior : RowsAt(staticAssets, p) = 1)
    /\ [][(BeforeSweep /\ BeforeSweep') =>
            RowPaths(staticAssets) \subseteq RowPaths(staticAssets')]_vars

C3_Witness ==
    /\ pc = "crashed"
    /\ stoppedAt = "gc"
    /\ prior \cap FilePaths # {}
    /\ prior \ FilePaths # {}
    /\ FilePaths \ prior # {}
    /\ \A p \in FilePaths : RegisteredByRun(p)

\* C4: a run in which a transfer or a registration call failed does not get
\* past the sweep: it does not complete, and the deployment pointer is not
\* set to its deploymentId.
C4_FailureNeverSweeps ==
    failure =>
        /\ pc \notin {"cdnDelete", "done"}
        /\ CurrentDeploymentId # deploymentId

\* C10: every row references a storage object that exists in its backend
\* (a storageId in block storage, a blobId in the CDN store), and no blob id
\* that the sweep released is referenced by a row.
C10_NoDanglingReference ==
    /\ \A k \in 1..Len(staticAssets) :
          LET r == staticAssets[k]
          IN  /\ r.storageId # Null \/ r.blobId # Null
              /\ r.storageId # Null => r.storageId \in storage
              /\ r.blobId # Null => r.blobId \in cdn
    /\ \A j \in 1..Len(oldBlobIds) :
          \A k \in 1..Len(staticAssets) :
              staticAssets[k].blobId # oldBlobIds[j]

C10_Witness ==
    /\ pc = "done"
    /\ oldBlobIds # <<>>
    /\ SeqToSet(oldBlobIds) \cap cdn = {}
    /\ \E k \in 1..Len(staticAssets) : staticAssets[k].blobId # Null
    /\ \E k \in 1..Len(staticAssets) : staticAssets[k].storageId # Null
    /\ "/index.html" \in prior \cap FilePaths
    /\ Cardinality(storage) =
          Cardinality({k \in 1..Len(staticAssets) :
                          staticAssets[k].storageId # Null})

\* ------------------------------------------------------------------------
\* Deploy runs in which no call fails and the process is never killed; every
\* call that was started settles
\* ------------------------------------------------------------------------
NextNoFailure ==
    \/ \E present \in SUBSET Paths, cdnMode \in BOOLEAN,
          n \in 1..MaxConcurrency : StartDeploy(present, cdnMode, n)
    \/ EnterUpload
    \/ GenerateUploadUrlsOk
    \/ \E t \in pending : StorageUploadOk(t)
    \/ \E t \in pending : CdnUploadOk(t)
    \/ RecordAssetsOk
    \/ RecordAssetOk
    \/ GcOk
    \/ DeleteCdnBlobsOk

\* a run that was started goes on: every awaited call settles
RunGoesOn == Running /\ NextNoFailure

SpecNoFailure == Init /\ [][NextNoFailure]_vars /\ WF_vars(RunGoesOn)

\* the ids uploads are answered with
UploadIds == 1..(MaxRuns * Len(PathOrder))
Referenced(b) ==
    \E k \in 1..Len(staticAssets) :
        staticAssets[k].storageId = b \/ staticAssets[k].blobId = b
\* b was uploaded by a run that is over.  When no call fails such a run has
\* registered every object it uploaded, so b has been referenced by a row.
OfEarlierRun(b) ==
    b <= (IF Running THEN deploymentId - 1 ELSE deploymentId) * Len(PathOrder)
\* b was referenced by a row, no row references it now, and it still exists
RemovedNotDeleted(b) ==
    /\ b \in storage \cup cdn
    /\ OfEarlierRun(b)
    /\ ~Referenced(b)

\* C11: every storage reference that was removed from the registry, by a
\* replacing recordAsset or by gcOldAssets, is eventually deleted from its
\* backend.
C11_NoLeaks ==
    \A b \in UploadIds : RemovedNotDeleted(b) ~> (b \notin storage \cup cdn)

\* ------------------------------------------------------------------------
\* Properties of a completed deploy run (Spec)
\* ------------------------------------------------------------------------
\* main() has printed "Upload complete!": the run is reported as a success
Succeeded == pc = "done"

\* C12: after a successful deploy with deployment id d, getByPath(p) of every
\* path of the deployed file set is a row with deploymentId d, and
\* getByPath(p) of every path that had a row before and is not in the file
\* set is null.
C12_DeployedSetIsServed ==
    Succeeded =>
        /\ \A p \in FilePaths :
              LET a == GetByPath(staticAssets, p)
              IN  /\ a \notin {NullDoc, UniqueError}
                  /\ a.deploymentId = deploymentId
        /\ \A p \in prior \ FilePaths :
              GetByPath(staticAssets, p) = NullDoc

\* no deploy run is in flight: none was started, or the last one has ended
\* in success or in failure
Quiescent == pc \in {"idle", "done", "failed"}

\* C13: at a quiescent point, whether the last run succeeded or failed, the
\* deploymentId of every row is the currentDeploymentId of the pointer.
C13_RowsMatchPointerAtRest ==
    Quiescent =>
        \A k \in 1..Len(staticAssets) :
            staticAssets[k].deploymentId = CurrentDeploymentId

\* ------------------------------------------------------------------------
\* Properties of the upload pool (Spec)
\* ------------------------------------------------------------------------
UploadPcs == {"storageRace", "storageAll", "cdnRace", "cdnAll"}

\* C14: at every moment of a run the transfers that were started and have not
\* settled are at most --concurrency many, in the storage phase and in the
\* CDN phase; outside the two phases none is in flight.
C14_AtMostNInFlight ==
    /\ concurrency >= 1
    /\ Cardinality(pending) <= concurrency
    /\ pc \notin UploadPcs => pending = {}

C14_Witness ==
    /\ pc = "storageRace"
    /\ concurrency = 2
    /\ Cardinality(pending) = concurrency
    /\ idx <= Len(StorageFiles)

\* C15: when a transfer fails, uploadWithConcurrency throws (and the process
\* exits) only after every transfer that was in flight has settled: the
\* failing transfer is the only one pending at that step.
C15_DrainOnFailure ==
    [][(pc \in UploadPcs /\ pc' = "failed") => Cardinality(pending) <= 1]_vars

\* the phase of uploadWithConcurrency a position belongs to
PhaseOf(at) ==
    IF at \in {"storageRace", "storageAll"} THEN "storage"
    ELSE IF at \in {"cdnRace", "cdnAll"} THEN "cdn"
    ELSE "none"
\* the step starts a transfer: a task joins pending, or a phase begins
StartsTransfer ==
    /\ pc' \in UploadPcs
    /\ \/ PhaseOf(pc') # PhaseOf(pc)
       \/ ~(pending' \subseteq pending)

\* C16: once a transfer of the run has failed, no further transfer is
\* started, neither by the step that sees the failure nor by a later one.
C16_NoStartAfterFailure == [][failure' => ~StartsTransfer]_vars

\* ------------------------------------------------------------------------
\* Properties of the deployment pointer in a deploy run (Spec)
\* ------------------------------------------------------------------------
\* C17: after a deploy run with deployment id d has completed with success,
\* getCurrentDeployment returns a record whose currentDeploymentId is d.
C17_PointerIsTheCompletedRun ==
    Succeeded =>
        /\ GetCurrentDeployment(deploymentInfo) # NullDoc
        /\ GetCurrentDeployment(deploymentInfo).currentDeploymentId
              = deploymentId

C17_Witness ==
    /\ Succeeded
    /\ ~failure
    /\ deploymentId = 2
    /\ files # <<>>
    /\ CurrentDeploymentId = 2
    /\ GetCurrentDeployment(deploymentInfo).deployedAt = 2

\* the sweep of the current run has returned
AfterSweep ==
    \/ pc \in {"cdnDelete", "done"}
    \/ pc \in {"failed", "crashed"} /\ stoppedAt = "cdnDelete"

\* C18: the pointer has the deploymentId of a run only when the run's sweep
\* has returned: then no row of another deployment is left, and from then
\* on the run changes no row of the registry.
C18_PointerAfterAllMutations ==
    /\ []((deploymentId # Null /\ CurrentDeploymentId = deploymentId) =>
            /\ AfterSweep
            /\ \A k \in 1..Len(staticAssets) :
                  staticAssets[k].deploymentId = deploymentId)
    /\ [][(CurrentDeploymentId = deploymentId /\ deploymentId' = deploymentId)
            => staticAssets' = staticAssets]_vars

C18_Witness ==
    /\ pc = "cdnDelete"
    /\ deploymentId = 2
    /\ CurrentDeploymentId = 2
    /\ prior \ FilePaths # {}
    /\ prior \cap FilePaths # {}
    /\ Len(staticAssets) = Len(files)

\* ------------------------------------------------------------------------
\* Direct callers of the deployment pointer: any sequence of
\* setCurrentDeployment and getCurrentDeployment calls while time passes
\* ------------------------------------------------------------------------
\* an earlier setCurrentDeployment call has committed
PointerWasSet == lastCall.deploymentId # Null

CallSetCurrentDeployment(d) ==
    /\ deploymentInfo' = SetCurrentDeployment(deploymentInfo, d, clock)
    /\ lastCall' = [NoCall EXCEPT !.op = "setCurrentDeployment",
                                  !.deploymentId = d,
                                  !.repeat = PointerWasSet]
    /\ ret' = NoRet
    /\ UNCHANGED <<staticAssets, storage, cdn, clock>>
    /\ UNCHANGED <<runVars, siteVars>>

\* the query; lastCall keeps the deploymentId of the last committed set call
CallGetCurrentDeployment ==
    LET c == GetCurrentDeployment(deploymentInfo)
    IN  /\ lastCall' = [lastCall EXCEPT !.op = "getCurrentDeployment"]
        /\ ret' = [NoRet EXCEPT !.currentDeploymentId =
                        IF c = NullDoc THEN Null ELSE c.currentDeploymentId]
        /\ UNCHANGED backendVars
        /\ UNCHANGED <<runVars, siteVars>>

\* Date.now() advances
Tick ==
    /\ clock < MaxClock
    /\ clock' = clock + 1
    /\ UNCHANGED <<staticAssets, deploymentInfo, storage, cdn>>
    /\ UNCHANGED <<runVars, libVars, siteVars>>

NextPointer ==
    \/ \E d \in LibDeploymentIds : CallSetCurrentDeployment(d)
    \/ CallGetCurrentDeployment
    \/ Tick

SpecPointer == Init /\ [][NextPointer]_vars

\* C19: deploymentInfo holds no row before the first setCurrentDeployment
\* call and exactly one row afterwards, the row is never deleted, and
\* getCurrentDeployment returns the deploymentId of the setCurrentDeployment
\* call that committed last.
C19_PointerIsSingleton ==
    /\ [](/\ Len(deploymentInfo) <= 1
          /\ (Len(deploymentInfo) = 1) = PointerWasSet
          /\ PointerWasSet =>
                GetCurrentDeployment(deploymentInfo).currentDeploymentId
                    = lastCall.deploymentId
          /\ lastCall.op = "getCurrentDeployment" =>
                ret.currentDeploymentId = lastCall.deploymentId)
    /\ [][Len(deploymentInfo') >= Len(deploymentInfo)]_vars

C19_Witness ==
    /\ lastCall.op = "getCurrentDeployment"
    /\ lastCall.repeat
    /\ ret.currentDeploymentId = 2
    /\ Len(deploymentInfo) = 1
    /\ deploymentInfo[1].deployedAt = 3

\* ------------------------------------------------------------------------
\* The storage reference of a row (SpecLib)
\* ------------------------------------------------------------------------
\* C20: after any sequence of recordAsset calls every row has exactly one of
\* storageId and blobId: never both and never neither.
C20_ExactlyOneReference ==
    \A k \in 1..Len(staticAssets) :
        (staticAssets[k].storageId # Null) # (staticAssets[k].blobId # Null)

\* ------------------------------------------------------------------------
\* A deploy run over an empty dist directory (Spec)
\* ------------------------------------------------------------------------
\* C21: a deploy run whose file set is empty changes nothing: no step of the
\* run changes the rows of the registry, the stored objects of either
\* backend or the currentDeploymentId of the pointer.
C21_EmptyFileSetIsNoOp ==
    [][(Running /\ files = <<>>) =>
          /\ staticAssets' = staticAssets
          /\ storage' = storage
          /\ cdn' = cdn
          /\ CurrentDeploymentId' = CurrentDeploymentId]_vars

\* ------------------------------------------------------------------------
\* Routing of the files of a run to the two backends (Spec)
\* ------------------------------------------------------------------------
\* the path whose upload was answered with the id b
PathOf(b) == PathOrder[((b - 1) % Len(PathOrder)) + 1]
\* the backend the claim gives a file of this content type in this mode
BelongsOnCdn(contentType, cdnMode) == cdnMode /\ ~IsHtml(contentType)
\* the entry has the reference its content type asks for, and only that one
RightReference(a, cdnMode) ==
    /\ (a.blobId # Null) = BelongsOnCdn(a.contentType, cdnMode)
    /\ (a.storageId # Null) = ~BelongsOnCdn(a.contentType, cdnMode)
RowOfRun(k) == staticAssets[k].deploymentId = deploymentId

\* C22: with --cdn every non-HTML file is uploaded to the CDN store and
\* registered with a blobId and every HTML file is uploaded to block storage
\* and registered with a storageId; without --cdn every file goes to block
\* storage.  No HTML row ever has a blobId.
C22_RoutingByContentType ==
    /\ [](/\ \A k \in 1..Len(staticAssets) :
                /\ RowOfRun(k) => RightReference(staticAssets[k], useCdn)
                /\ IsHtml(staticAssets[k].contentType) =>
                        staticAssets[k].blobId = Null
          /\ \A k \in 1..Len(allAssets) :
                LET a == allAssets[k]
                IN  /\ (a.blobId # Null) = BelongsOnCdn(a.contentType, useCdn)
                    /\ a.storageId # Null =>
                            ~BelongsOnCdn(a.contentType, useCdn)
          /\ (Succeeded /\ ~failure) =>
                \A p \in FilePaths :
                    \E k \in 1..Len(staticAssets) :
                        staticAssets[k].path = p /\ RowOfRun(k))
    /\ [][/\ \A b \in cdn' \ cdn :
                BelongsOnCdn(GetMimeType(PathOf(b)), useCdn)
          /\ \A b \in storage' \ storage :
                ~BelongsOnCdn(GetMimeType(PathOf(b)), useCdn)]_vars

C22_Witness ==
    /\ Succeeded
    /\ ~failure
    /\ useCdn
    /\ Len(files) = 3
    /\ \E k \in 1..Len(staticAssets) :
          /\ staticAssets[k].path = "/index.html"
          /\ staticAssets[k].storageId \in storage
    /\ \E k \in 1..Len(staticAssets) :
          /\ staticAssets[k].path = "/app.js"
          /\ staticAssets[k].blobId \in cdn
    /\ prior = {"/index.html", "/app.js"}

\* ------------------------------------------------------------------------
\* Failure of the blob deletion that follows the sweep (Spec)
\* ------------------------------------------------------------------------
\* the deleteCdnBlobs call of the run was made and blobs it named are still
\* in the CDN store
BlobDeletionFailed ==
    /\ pc \in {"done", "failed"}
    /\ oldBlobIds # <<>>
    /\ SeqToSet(oldBlobIds) \cap cdn # {}
    /\ pc = "failed" => stoppedAt = "cdnDelete"

\* C23: when the deletion of the swept blobs fails after gcOldAssets has
\* returned, the run still completes with success, the swept rows stay
\* deleted and the pointer stays at the run's deploymentId.
C23_BlobDeletionFailureNotFatal ==
    /\ [](BlobDeletionFailed =>
            /\ Succeeded
            /\ CurrentDeploymentId = deploymentId
            /\ \A k \in 1..Len(staticAssets) :
                  /\ staticAssets[k].deploymentId = deploymentId
                  /\ staticAssets[k].blobId \notin SeqToSet(oldBlobIds))
    /\ [][(pc = "cdnDelete" /\ pc' # "crashed") =>
            /\ pc' = "done"
            /\ staticAssets' = staticAssets
            /\ deploymentInfo' = deploymentInfo]_vars

C23_Witness ==
    /\ BlobDeletionFailed
    /\ Succeeded
    /\ deploymentId = 2
    /\ CurrentDeploymentId = 2
    /\ staticAssets # <<>>
    /\ prior \ FilePaths # {}

\* ------------------------------------------------------------------------
\* The serving resolver of registerStaticRoutes: one decision per request,
\* over the registry as it is when the request is served
\* ------------------------------------------------------------------------
\* a path as the characters of its string
Chars ==
    [p \in Paths |->
        IF p = "/index.html"
        THEN <<"/", "i", "n", "d", "e", "x", ".", "h", "t", "m", "l">>
        ELSE IF p = "/app.js" THEN <<"/", "a", "p", "p", ".", "j", "s">>
        ELSE <<"/", "l", "o", "g", "o", ".", "p", "n", "g">>]
\* the path string of a sequence of characters; a string no row has when the
\* characters are not those of a file of the model
NameOf(chars) ==
    IF \E p \in Paths : Chars[p] = chars
    THEN CHOOSE p \in Paths : Chars[p] = chars
    ELSE "?"

\* the paths requests ask for, and the values of the option pathPrefix
SitePrefix == <<"/", "s">>
RequestPaths ==
    {Chars[p] : p \in Paths}
        \cup {SitePrefix \o Chars[p] : p \in Paths}
        \cup {<<"/">>,
              <<"/", "r">>,
              <<"/", "x", ".", "p", "n", "g">>,
              <<"/", "v", ".", "1", "/", "r">>,
              SitePrefix,
              SitePrefix \o <<"/", "r">>,
              SitePrefix \o <<"/", "x", ".", "j", "s">>}
Prefixes == {<<>>, SitePrefix}
\* the option cdnBaseUrl; the empty string when it is not set
NoUrl == ""
CdnBaseUrls == {NoUrl, "https://cdn.example/fs/blobs"}

StartsWith(s, pre) ==
    Len(s) >= Len(pre) /\ SubSeq(s, 1, Len(pre)) = pre

\* step 1: the prefix is stripped; an empty rest is "/"
StripPrefix(path, prefix) ==
    IF prefix # <<>> /\ StartsWith(path, prefix)
    THEN LET rest == SubSeq(path, Len(prefix) + 1, Len(path))
         IN  IF rest = <<>> THEN <<"/">> ELSE rest
    ELSE path

\* the final segment of a path: what follows its last "/"
RECURSIVE FinalSegment(_)
FinalSegment(path) ==
    IF path = <<>> THEN <<>>
    ELSE IF \E k \in 2..Len(path) : path[k] = "/"
         THEN FinalSegment(Tail(path))
         ELSE IF Head(path) = "/" THEN Tail(path) ELSE path

\* the heuristic taken over every segment of the path
HasExtension_AnyDot(path) == \E k \in 1..Len(path) : path[k] = "."

\* step 3: the path carries a file extension: a "." in its final segment
HasExtension(path) ==
    LET seg == FinalSegment(path)
    IN  \E k \in 1..Len(seg) : seg[k] = "."

\* steps 2 to 4: the row the request resolves to, or NullDoc
Lookup(table, path, spaFallback) ==
    LET asset == GetByPath(table, NameOf(path))
    IN  IF asset = NullDoc /\ spaFallback /\ ~HasExtension(path)
        THEN GetByPath(table, "/index.html")
        ELSE asset

\* the storage identifier of a row
StorageIdentifier(asset) ==
    IF asset.storageId # Null THEN asset.storageId ELSE asset.blobId

\* the cache decision that gives every response the long-lived policy
CachePolicy_AllImmutable(asset) == [cache |-> "immutable", etag |-> <<>>]

\* step 6: HTML is revalidated against an ETag of the storage identifier and
\* the deploymentId, everything else is immutable
CachePolicy(asset) ==
    IF IsHtml(asset.contentType)
    THEN [cache |-> "revalidate",
          etag |-> <<StorageIdentifier(asset), asset.deploymentId>>]
    ELSE [cache |-> "immutable", etag |-> <<>>]

\* the redirect decision that does not look at the option cdnBaseUrl
IsRedirect_AnyBlob(asset, cdnBaseUrl) == asset.blobId # Null

\* step 7: a CDN asset is redirected when cdnBaseUrl is configured
IsRedirect(asset, cdnBaseUrl) == cdnBaseUrl # NoUrl /\ asset.blobId # Null

NotFound == [status |-> "notFound"]

\* the decision for one request
Resolve(table, requestPath, prefix, spaFallback, cdnBaseUrl) ==
    LET asset == Lookup(table, StripPrefix(requestPath, prefix), spaFallback)
    IN  IF asset \in {NullDoc, UniqueError} THEN NotFound
        ELSE LET policy == CachePolicy(asset)
             IN  IF IsRedirect(asset, cdnBaseUrl)
                 THEN [status |-> "redirect",
                       location |-> <<cdnBaseUrl, asset.blobId>>,
                       contentType |-> asset.contentType,
                       cache |-> policy.cache,
                       etag |-> policy.etag,
                       asset |-> asset]
                 ELSE [status |-> "ok",
                       body |-> asset.storageId,
                       contentType |-> asset.contentType,
                       cache |-> policy.cache,
                       etag |-> policy.etag,
                       asset |-> asset]

\* the registry, block storage and CDN store after a deploy of the files
\* present, with or without --cdn, under deployment d
DeployedRows(present, cdnMode, d) ==
    LET fs == CollectFiles(PathOrder, present)
    IN  [k \in 1..Len(fs) |->
            LET id == (d - 1) * Len(PathOrder)
                        + (CHOOSE j \in 1..Len(PathOrder) :
                              PathOrder[j] = fs[k].path)
            IN  [path |-> fs[k].path,
                 storageId |-> IF ToCdn(fs[k], cdnMode) THEN Null ELSE id,
                 blobId |-> IF ToCdn(fs[k], cdnMode) THEN id ELSE Null,
                 contentType |-> fs[k].contentType,
                 deploymentId |-> d]]

InitServe ==
    /\ \E present \in SUBSET Paths, cdnMode \in BOOLEAN, d \in DeploymentIds :
          /\ staticAssets = DeployedRows(present, cdnMode, d)
          /\ storage = SeqToSet(StorageIdsOf(staticAssets))
          /\ cdn = SeqToSet(BlobIdsOf(staticAssets))
          /\ deploymentInfo = <<[currentDeploymentId |-> d, deployedAt |-> d]>>
          /\ clock = d
    /\ pc = "idle"
    /\ runs = 0
    /\ deploymentId = Null
    /\ files = <<>>
    /\ useCdn = FALSE
    /\ concurrency = 1
    /\ idx = 0
    /\ pending = {}
    /\ storageIds = <<>>
    /\ allAssets = <<>>
    /\ oldBlobIds = <<>>
    /\ prior = {}
    /\ stoppedAt = ""
    /\ failure = FALSE
    /\ lastCall = NoCall
    /\ ret = NoRet
    /\ request = NoRequest
    /\ other = IdleProcess
    /\ client = FreshPage(TRUE, 1)

\* a request is served
Serve(requestPath, prefix, spaFallback, cdnBaseUrl) ==
    /\ request' = [at |-> "responded",
                   path |-> requestPath,
                   prefix |-> prefix,
                   spaFallback |-> spaFallback,
                   cdnBaseUrl |-> cdnBaseUrl,
                   response |-> Resolve(staticAssets, requestPath, prefix,
                                        spaFallback, cdnBaseUrl)]
    /\ UNCHANGED <<backendVars, runVars, libVars, client, other>>

NextServe ==
    \E requestPath \in RequestPaths, prefix \in Prefixes,
       spaFallback \in BOOLEAN, cdnBaseUrl \in CdnBaseUrls :
        Serve(requestPath, prefix, spaFallback, cdnBaseUrl)

SpecServe == InitServe /\ [][NextServe]_vars

\* ------------------------------------------------------------------------
\* Properties of the serving resolver (SpecServe)
\* ------------------------------------------------------------------------
Responded == request.at = "responded"
\* the path the request asks for, its prefix stripped, and the row it names
Asked == StripPrefix(request.path, request.prefix)
AskedRow == GetByPath(staticAssets, NameOf(Asked))
\* a "." that no "/" follows
DotInFinalSegment(path) ==
    \E k \in 1..Len(path) :
        path[k] = "." /\ \A j \in (k + 1)..Len(path) : path[j] # "/"
IndexRequest == request.prefix \o Chars["/index.html"]

\* C24: a request for a path without "." in its final segment, with no row
\* at the path and fallback enabled, gets the response a request for
\* /index.html gets; a request for a path with an extension and no row gets
\* not-found, with fallback enabled or not.
C24_SpaFallback ==
    Responded =>
        /\ (AskedRow = NullDoc /\ request.spaFallback
                /\ ~DotInFinalSegment(Asked)) =>
              /\ request.response =
                    Resolve(staticAssets, IndexRequest, request.prefix,
                            request.spaFallback, request.cdnBaseUrl)
              /\ IF GetByPath(staticAssets, "/index.html") = NullDoc
                 THEN request.response = NotFound
                 ELSE request.response.asset =
                        GetByPath(staticAssets, "/index.html")
        /\ (AskedRow = NullDoc /\ DotInFinalSegment(Asked)) =>
              request.response = NotFound

C24_Witness ==
    /\ Responded
    /\ request.path = <<"/", "v", ".", "1", "/", "r">>
    /\ request.prefix = <<>>
    /\ request.spaFallback
    /\ request.response # NotFound
    /\ request.response.asset.path = "/index.html"
    /\ Len(staticAssets) = 3

\* the request resolved to a row
Resolved == Responded /\ request.response # NotFound
IsRowOfRegistry(a) == \E k \in 1..Len(staticAssets) : staticAssets[k] = a

\* C25: the response for a row whose contentType starts with text/html is
\* marked revalidate and carries an ETag made of the row's storage identifier
\* and deploymentId; the response for a row of any other contentType is
\* marked immutable.
C25_CachePolicy ==
    Resolved =>
        LET r == request.response
            a == r.asset
        IN  /\ IsRowOfRegistry(a)
            /\ r.contentType = a.contentType
            /\ IF a.contentType = HtmlType
               THEN /\ r.cache = "revalidate"
                    /\ Len(r.etag) = 2
                    /\ r.etag[1] # Null
                    /\ r.etag[1] \in {a.storageId, a.blobId}
                    /\ r.etag[2] = a.deploymentId
               ELSE r.cache = "immutable"

C25_Witness ==
    /\ Resolved
    /\ request.spaFallback
    /\ request.path = <<"/">>
    /\ request.response.cache = "revalidate"
    /\ request.response.etag = <<4, 2>>
    /\ \E k \in 1..Len(staticAssets) : staticAssets[k].blobId # Null

\* C26: the response is a redirect to {cdnBaseUrl}/{blobId} exactly when
\* cdnBaseUrl is configured and the row has a blobId; in every other case it
\* streams the object the row's storageId names.
C26_RedirectDecision ==
    Resolved =>
        LET r == request.response
            a == r.asset
        IN  /\ IsRowOfRegistry(a)
            /\ (r.status = "redirect") =
                    (request.cdnBaseUrl # NoUrl /\ a.blobId # Null)
            /\ r.status = "redirect" =>
                    r.location = <<request.cdnBaseUrl, a.blobId>>
            /\ r.status # "redirect" =>
                    r.status = "ok" /\ r.body = a.storageId

C26_Witness ==
    /\ Resolved
    /\ request.response.status = "redirect"
    /\ request.response.asset.path = "/app.js"
    /\ request.response.location[2] \in cdn
    /\ request.prefix = SitePrefix
    /\ \E k \in 1..Len(staticAssets) : staticAssets[k].storageId # Null

\* ------------------------------------------------------------------------
\* The live-reload signal: useDeploymentUpdates and UpdateBanner of
\* src/src/react/index.tsx in one browser page, subscribed to the pointer
\* ------------------------------------------------------------------------
\* React runs the effect of a render before it renders the component again
\* and before it handles a click, so renders and clicks wait for the effect.
\* !deployment
NoDeployment(deployment) == deployment \in {Loading, NullDoc}

\* the subscription delivers a new result of getCurrentDeployment: the
\* component renders again and the effect is scheduled ([deployment])
QueryUpdate ==
    /\ ~client.effectPending
    /\ client.deployment # GetCurrentDeployment(deploymentInfo)
    /\ client' = [client EXCEPT
                    !.deployment = GetCurrentDeployment(deploymentInfo),
                    !.effectPending = TRUE,
                    !.lastEvent = "update"]
    /\ UNCHANGED <<backendVars, runVars, libVars, request, other>>

\* the effect that reloads the page when the deployment has changed
RunEffect_AutoReload ==
    /\ client.effectPending
    /\ client' =
          IF NoDeployment(client.deployment)
          THEN [client EXCEPT !.effectPending = FALSE, !.lastEvent = "effect"]
          ELSE IF client.initialDeploymentId = Null
          THEN [client EXCEPT
                  !.initialDeploymentId = client.deployment.currentDeploymentId,
                  !.effectPending = FALSE,
                  !.lastEvent = "effect"]
          ELSE IF client.deployment.currentDeploymentId
                      # client.initialDeploymentId
                  /\ client.loads < MaxLoads
          THEN [FreshPage(client.dismissable, client.loads + 1)
                  EXCEPT !.lastEvent = "effect"]
          ELSE [client EXCEPT !.effectPending = FALSE, !.lastEvent = "effect"]
    /\ UNCHANGED <<backendVars, runVars, libVars, request, other>>

\* the effect that stores every deployment id it sees
RunEffect_AlwaysStore ==
    /\ client.effectPending
    /\ client' =
          IF NoDeployment(client.deployment)
          THEN [client EXCEPT !.effectPending = FALSE, !.lastEvent = "effect"]
          ELSE [client EXCEPT
                  !.initialDeploymentId = client.deployment.currentDeploymentId,
                  !.effectPending = FALSE,
                  !.lastEvent = "effect"]
    /\ UNCHANGED <<backendVars, runVars, libVars, request, other>>

\* the effect of useDeploymentUpdates runs
RunEffect ==
    /\ client.effectPending
    /\ client' =
          IF NoDeployment(client.deployment)
          THEN [client EXCEPT !.effectPending = FALSE, !.lastEvent = "effect"]
          ELSE IF client.initialDeploymentId = Null
          THEN [client EXCEPT
                  !.initialDeploymentId = client.deployment.currentDeploymentId,
                  !.effectPending = FALSE,
                  !.lastEvent = "effect"]
          ELSE IF client.deployment.currentDeploymentId
                      # client.initialDeploymentId
          THEN [client EXCEPT !.updateAvailable = TRUE,
                              !.effectPending = FALSE,
                              !.lastEvent = "effect"]
          ELSE [client EXCEPT !.effectPending = FALSE, !.lastEvent = "effect"]
    /\ UNCHANGED <<backendVars, runVars, libVars, request, other>>

\* dismiss() that hides the banner and keeps the stored deployment id
ClickDismiss_KeepsStored ==
    /\ ~client.effectPending
    /\ client.updateAvailable
    /\ client.dismissable
    /\ client' = [client EXCEPT !.updateAvailable = FALSE,
                                !.lastEvent = "dismiss"]
    /\ UNCHANGED <<backendVars, runVars, libVars, request, other>>

\* the user clicks the dismiss button of the banner: dismiss()
ClickDismiss ==
    /\ ~client.effectPending
    /\ client.updateAvailable
    /\ client.dismissable
    /\ client' =
          [client EXCEPT
              !.initialDeploymentId =
                  IF NoDeployment(client.deployment)
                  THEN client.initialDeploymentId
                  ELSE client.deployment.currentDeploymentId,
              !.updateAvailable = FALSE,
              !.lastEvent = "dismiss"]
    /\ UNCHANGED <<backendVars, runVars, libVars, request, other>>

\* the user clicks the reload button of the banner: reload() calls
\* window.location.reload() and the page is loaded again
ClickReload ==
    /\ ~client.effectPending
    /\ client.updateAvailable
    /\ client.loads < MaxLoads
    /\ client' = [FreshPage(client.dismissable, client.loads + 1)
                     EXCEPT !.lastEvent = "reload"]
    /\ UNCHANGED <<backendVars, runVars, libVars, request, other>>

\* a fresh backend and a page that was just loaded, for either value of the
\* prop dismissable
InitClient ==
    /\ staticAssets = <<>>
    /\ deploymentInfo = <<>>
    /\ storage = {}
    /\ cdn = {}
    /\ clock = 0
    /\ pc = "idle"
    /\ runs = 0
    /\ deploymentId = Null
    /\ files = <<>>
    /\ useCdn = FALSE
    /\ concurrency = 1
    /\ idx = 0
    /\ pending = {}
    /\ storageIds = <<>>
    /\ allAssets = <<>>
    /\ oldBlobIds = <<>>
    /\ prior = {}
    /\ stoppedAt = ""
    /\ failure = FALSE
    /\ lastCall = NoCall
    /\ ret = NoRet
    /\ request = NoRequest
    /\ other = IdleProcess
    /\ \E dismissable \in BOOLEAN : client = FreshPage(dismissable, 1)

\* the pointer is set by deploys while the page is open
NextClient ==
    \/ \E d \in DeploymentIds : CallSetCurrentDeployment(d)
    \/ QueryUpdate
    \/ RunEffect
    \/ ClickDismiss
    \/ ClickReload

SpecClient == InitClient /\ [][NextClient]_vars

\* ------------------------------------------------------------------------
\* Properties of the live-reload signal (SpecClient)
\* ------------------------------------------------------------------------
EffectRan == client'.lastEvent = "effect" /\ client' # client
Captured == client.initialDeploymentId # Null
\* the deployment id the page has rendered last
ObservedId ==
    IF NoDeployment(client.deployment) THEN Null
    ELSE client.deployment.currentDeploymentId

\* C27: the page captures the first currentDeploymentId it observes;
\* updateAvailable is false until an id is captured; the effect never
\* replaces a captured id, and once it has run for an observed id that
\* differs from the captured one updateAvailable is true.
C27_LiveReloadSignal ==
    /\ [](/\ ~Captured => ~client.updateAvailable
          /\ (~Captured /\ ~client.effectPending) => ObservedId = Null
          /\ (Captured /\ ~client.effectPending
                /\ ObservedId # client.initialDeploymentId) =>
                    client.updateAvailable)
    /\ [][/\ (~Captured /\ client'.initialDeploymentId # Null
                /\ client'.loads = client.loads) =>
                    /\ EffectRan
                    /\ client'.initialDeploymentId = ObservedId
          /\ (Captured /\ EffectRan /\ client'.loads = client.loads) =>
                    /\ client'.initialDeploymentId
                          = client.initialDeploymentId
                    /\ client'.updateAvailable =
                          (client.updateAvailable
                            \/ ObservedId # client.initialDeploymentId)]_vars

C27_Witness ==
    /\ client.updateAvailable
    /\ client.initialDeploymentId = 1
    /\ ObservedId = 2
    /\ client.lastEvent = "effect"
    /\ client.loads = 1

ThisProcess ==
    [pc |-> pc, deploymentId |-> deploymentId, files |-> files,
     useCdn |-> useCdn, concurrency |-> concurrency, idx |-> idx,
     pending |-> pending, storageIds |-> storageIds, allAssets |-> allAssets,
     oldBlobIds |-> oldBlobIds, prior |-> prior, stoppedAt |-> stoppedAt,
     failure |-> failure]

\* the next step is taken by the other process
Switch ==
    /\ other' = ThisProcess
    /\ pc' = other.pc
    /\ deploymentId' = other.deploymentId
    /\ files' = other.files
    /\ useCdn' = other.useCdn
    /\ concurrency' = other.concurrency
    /\ idx' = other.idx
    /\ pending' = other.pending
    /\ storageIds' = other.storageIds
    /\ allAssets' = other.allAssets
    /\ oldBlobIds' = other.oldBlobIds
    /\ prior' = other.prior
    /\ stoppedAt' = other.stoppedAt
    /\ failure' = other.failure
    /\ UNCHANGED <<backendVars, runs, libVars, request, client>>

\* a process starts its one deploy; randomUUID() differs between the two
StartOverlapping(present, cdnMode, n) ==
    /\ pc = "idle"
    /\ StartDeploy(present, cdnMode, n)

NextOverlap ==
    \/ Switch
    \/ \E present \in SUBSET Paths, cdnMode \in BOOLEAN,
          n \in 1..MaxConcurrency : StartOverlapping(present, cdnMode, n)
    \/ EnterUpload
    \/ GenerateUploadUrlsOk
    \/ \E t \in pending : StorageUploadOk(t)
    \/ \E t \in pending : CdnUploadOk(t)
    \/ RecordAssetsOk
    \/ RecordAssetOk
    \/ GcOk
    \/ DeleteCdnBlobsOk

SpecOverlap == Init /\ [][NextOverlap]_vars

\* ------------------------------------------------------------------------
\* Properties of two overlapping deploy runs (SpecOverlap)
\* ------------------------------------------------------------------------
OtherFilePaths == {other.files[k].path : k \in 1..Len(other.files)}
BothSucceeded ==
    /\ pc = "done" /\ ~failure
    /\ other.pc = "done" /\ ~other.failure
\* the step is the sweep of the process that is taking steps
SweepStep == pc = "gc" /\ pc' \in {"cdnDelete", "done"} /\ other' = other

\* C29: two overlapping deploy runs are not isolated: the sweep of a run
\* deletes every row that does not have its deploymentId, the rows the
\* other run has registered included, so when both runs have completed with
\* success every row left is of the run that swept last, and a path of both
\* file sets can be without a row.
C29_OverlappingRunsNotIsolated ==
    /\ [](BothSucceeded =>
            \A k \in 1..Len(staticAssets) :
                staticAssets[k].deploymentId = CurrentDeploymentId)
    /\ [][SweepStep =>
            /\ staticAssets' = Current(staticAssets, deploymentId)
            /\ \A k \in 1..Len(staticAssets) :
                  staticAssets[k].deploymentId = other.deploymentId =>
                      RowsAt(staticAssets', staticAssets[k].path) = 0]_vars

C29_Witness ==
    /\ BothSucceeded
    /\ \E p \in FilePaths \cap OtherFilePaths : RowsAt(staticAssets, p) = 0
    /\ FilePaths = OtherFilePaths
    /\ staticAssets = <<>>
    /\ Len(files) = 2

\* ------------------------------------------------------------------------
\* A request in flight while a deploy runs: the handler of registerNextRoutes
\* (src/unnamed/part_007).  The handler is an HTTP action, not a transaction:
\* the query, the read of the storage object and the forwarded action are
\* separate steps.
\* ------------------------------------------------------------------------
\* "/_next/static/", written short
NextStatic == <<"/", "_", "n", "/">>

\* the pathname of each file in a Next.js site: /app.js and /logo.png are
\* build output under /_next/static/, /index.html is a page
NextChars ==
    [p \in Paths |->
        IF p = "/index.html" THEN Chars[p] ELSE NextStatic \o Tail(Chars[p])]

\* the registry key of a pathname; a key no row has when the pathname is not
\* that of a file of the model
NextNameOf(chars) ==
    IF \E p \in Paths : NextChars[p] = chars
    THEN CHOOSE p \in Paths : NextChars[p] = chars
    ELSE "?"

\* the pathnames requests ask for
NextRequestPaths ==
    {NextChars[p] : p \in Paths}
        \cup {SitePrefix \o NextChars[p] : p \in Paths}
        \cup {NextStatic \o <<"x">>, SitePrefix}

\* the statuses the forwarded Node action answers with
ActionStatuses == {200, 404}

\* the handler up to its first await: the prefix is stripped; a path under
\* /_next/static/ is looked up, every other path is forwarded
HandlerReceive(pathname, prefix) ==
    /\ request.at \in {"none", "responded", "threw"}
    /\ LET path == StripPrefix(pathname, prefix)
       IN  request' = [at |-> IF StartsWith(path, NextStatic)
                              THEN "lookup" ELSE "forwarding",
                       pathname |-> pathname,
                       prefix |-> prefix,
                       path |-> path]
    /\ UNCHANGED <<backendVars, runVars, libVars, client, other>>

\* the handler that reads the storage object of any row it is given
HandlerGetByPath_AnyRow ==
    /\ request.at = "lookup"
    /\ LET asset == GetByPath(staticAssets, NextNameOf(request.path))
       IN  /\ asset # UniqueError
           /\ request' =
                 IF asset # NullDoc
                 THEN [at |-> "gotAsset", asset |-> asset]
                 ELSE [request EXCEPT !.at = "forwarding"]
    /\ UNCHANGED <<backendVars, runVars, libVars, client, other>>

\* await ctx.runQuery(component.lib.getByPath, { path }) returns: with a
\* storageId the handler goes on to read the object, without a row or
\* without a storageId it falls through to the Node action
HandlerGetByPath ==
    /\ request.at = "lookup"
    /\ LET asset == GetByPath(staticAssets, NextNameOf(request.path))
       IN  /\ asset # UniqueError
           /\ request' =
                 IF asset # NullDoc /\ asset.storageId # Null
                 THEN [at |-> "gotAsset", asset |-> asset]
                 ELSE [request EXCEPT !.at = "forwarding"]
    /\ UNCHANGED <<backendVars, runVars, libVars, client, other>>

\* await ctx.storage.get(asset.storageId) returns the blob or null: the
\* blob is served, with null the handler falls through to the Node action
HandlerStorageGet ==
    /\ request.at = "gotAsset"
    /\ request' =
          IF request.asset.storageId \in storage
          THEN [at |-> "responded", via |-> "storage", status |-> 200,
                body |-> request.asset.storageId,
                contentType |-> request.asset.contentType,
                cacheControl |-> "public, max-age=31536000, immutable"]
          ELSE [at |-> "forwarding"]
    /\ UNCHANGED <<backendVars, runVars, libVars, client, other>>

\* runQuery or ctx.storage.get rejects: both awaits are outside the try
\* block, the exception leaves the handler
HandlerCallRejects ==
    /\ request.at \in {"lookup", "gotAsset"}
    /\ request' = [at |-> "threw", in |-> request.at]
    /\ UNCHANGED <<backendVars, runVars, libVars, client, other>>

\* ctx.runAction(actionRef, ...) returns: the response is the action's
HandlerForwardOk(status) ==
    /\ request.at = "forwarding"
    /\ request' = [at |-> "responded", via |-> "action", status |-> status,
                   body |-> "action"]
    /\ UNCHANGED <<backendVars, runVars, libVars, client, other>>

\* ctx.runAction rejects: the catch block answers 500 with the message
HandlerForwardRejects ==
    /\ request.at = "forwarding"
    /\ request' = [at |-> "responded", via |-> "catch", status |-> 500,
                   body |-> "message"]
    /\ UNCHANGED <<backendVars, runVars, libVars, client, other>>

NextInFlight ==
    \/ NextNoFailure
    \/ \E pathname \in NextRequestPaths, prefix \in Prefixes :
          HandlerReceive(pathname, prefix)
    \/ HandlerGetByPath
    \/ HandlerStorageGet
    \/ HandlerCallRejects
    \/ \E status \in ActionStatuses : HandlerForwardOk(status)
    \/ HandlerForwardRejects

SpecInFlight == Init /\ [][NextInFlight]_vars

\* the handler holds a row with a storageId and has not read the object yet
HoldsStorageRow == request.at = "gotAsset"

\* C30: once a handler has obtained a row from getByPath, the storage object
\* the row references is in its backend until the handler has read it.
C30_NoDanglingInFlight ==
    HoldsStorageRow => request.asset.storageId \in storage

\* C36: whenever a backend call made while handling a request fails (the
\* registry lookup, the storage read or the forwarded action), the outcome is
\* a 5xx response with a whole body; no exception leaves the handler.
C36_ErrorsDegradeTo5xx ==
    /\ request.at # "threw"
    /\ (request.at = "responded" /\ request.via = "catch") =>
            /\ request.status \in 500..599
            /\ request.body = "message"

\* the response that serves a row's storage object
DirectResponse(asset) ==
    [at |-> "responded", via |-> "storage", status |-> 200,
     body |-> asset.storageId,
     contentType |-> asset.contentType,
     cacheControl |-> "public, max-age=31536000, immutable"]

\* C37: the handler serves a request from storage (status 200, the row's
\* contentType, immutable Cache-Control) exactly when the prefix-stripped
\* path starts with /_next/static/, getByPath returns a row with a storageId
\* and the blob is in storage; in every other case in which its calls return
\* the request is forwarded to the Node action.
C37_DirectServeExactlyWhen ==
    [][/\ (request.at \in {"none", "responded", "threw"}
            /\ request' # request) =>
              /\ request'.at \in {"lookup", "forwarding"}
              /\ (request'.at = "lookup")
                    = StartsWith(StripPrefix(request'.pathname,
                                             request'.prefix), NextStatic)
       /\ (request.at = "lookup" /\ request'.at # "threw"
            /\ request' # request) =>
              LET asset == GetByPath(staticAssets, NextNameOf(request.path))
              IN  IF asset # NullDoc /\ asset.storageId # Null
                  THEN request' = [at |-> "gotAsset", asset |-> asset]
                  ELSE request'.at = "forwarding"
       /\ (request.at = "gotAsset" /\ request'.at # "threw"
            /\ request' # request) =>
              IF request.asset.storageId \in storage
              THEN request' = DirectResponse(request.asset)
              ELSE request'.at = "forwarding"
       /\ (request.at = "forwarding" /\ request' # request) =>
              /\ request'.at = "responded"
              /\ request'.via \in {"action", "catch"}]_vars

\* a file under /_next/static/ was served from storage after a deploy
C37_Witness ==
    /\ request.at = "responded"
    /\ request.via = "storage"
    /\ request.status = 200
    /\ request.contentType = JsType
    /\ request.body \in storage
    /\ RowsAt(staticAssets, "/app.js") = 1
    /\ GetByPath(staticAssets, "/app.js").storageId = request.body
    /\ Succeeded

\* ------------------------------------------------------------------------
\* Binding of a path to its own upload (Spec)
\* ------------------------------------------------------------------------
\* the identifier a row or an entry of allAssets carries
IdentifierOf(a) == IF a.storageId # Null THEN a.storageId ELSE a.blobId

\* a carries the identifier that the upload of its own path was answered
\* with in this run, and the contentType of its own file
OwnBinding(a) ==
    /\ a.path \in FilePaths
    /\ IdentifierOf(a) = FreshId(a.path)
    /\ a.contentType = GetMimeType(a.path)
    /\ a.storageId = Null \/ a.blobId = Null

\* C31: the row a run registers for path p carries the identifier that the
\* upload of p's own file returned and p's own contentType, whatever the
\* order in which the uploads complete; no two files of the run are
\* registered with the same identifier.
C31_PathToContentBinding ==
    /\ \A k \in 1..Len(storageIds) :
          storageIds[k] # Null => storageIds[k] = FreshId(StorageFiles[k].path)
    /\ \A k \in 1..Len(allAssets) :
          IdentifierOf(allAssets[k]) # Null => OwnBinding(allAssets[k])
    /\ \A k \in 1..Len(staticAssets) :
          RowOfRun(k) =>
              /\ OwnBinding(staticAssets[k])
              /\ \A j \in 1..Len(staticAssets) :
                    (RowOfRun(j) /\ j # k) =>
                        IdentifierOf(staticAssets[j])
                            # IdentifierOf(staticAssets[k])

\* the uploads of /logo.png and /app.js completed in the reverse of their
\* order in the file set, and both are registered
C31_Witness ==
    /\ pc = "gc"
    /\ useCdn
    /\ Len(files) = 3
    /\ Len(allAssets) = 3
    /\ allAssets[2].path = "/logo.png"
    /\ allAssets[3].path = "/app.js"
    /\ \A p \in FilePaths :
          \E k \in 1..Len(staticAssets) :
              /\ staticAssets[k].path = p
              /\ RowOfRun(k)
              /\ IdentifierOf(staticAssets[k]) = FreshId(p)

\* ------------------------------------------------------------------------
\* Completion and refill of the upload pool (Spec)
\* ------------------------------------------------------------------------
\* uploadWithConcurrency has returned to main() without throwing
ReturnedNormally ==
    \/ pc \in {"gc", "cdnDelete", "done"}
    \/ pc \in {"failed", "crashed"} /\ stoppedAt \in {"gc", "cdnDelete"}

\* C32: when uploadWithConcurrency has returned normally, every file of the
\* file set has been transferred and registered: it has a row of the run
\* that carries the identifier its upload was answered with.
C32_ReturnMeansAllRegistered ==
    ReturnedNormally =>
        \A p \in FilePaths :
            \E k \in 1..Len(staticAssets) :
                /\ staticAssets[k].path = p
                /\ RowOfRun(k)
                /\ IdentifierOf(staticAssets[k]) = FreshId(p)

\* the files of the run no transfer has been started for
Unstarted ==
    IF pc \in {"storageRace", "storageAll"}
    THEN (Len(StorageFiles) - (idx - 1)) + Len(CdnFiles)
    ELSE IF pc \in {"cdnRace", "cdnAll"}
         THEN Len(CdnFiles) - (idx - 1)
         ELSE 0

Min(a, b) == IF a <= b THEN a ELSE b

\* C33: while no failure has occurred, whenever the orchestrator waits for a
\* completion, min(N, remaining) transfers are in flight: the pool is not
\* below N while files are left to start.
C33_PoolRefill ==
    (pc \in UploadPcs /\ ~failure) =>
        Cardinality(pending)
            = Min(concurrency, Cardinality(pending) + Unstarted)

\* ------------------------------------------------------------------------
\* Independence of recordAsset calls on different paths (SpecRecord): one
\* recordAsset call on a registry that direct calls have filled
\* ------------------------------------------------------------------------
\* the rows recordAsset can have stored at path p
LibRows(p) ==
    {NewDoc([path |-> p, storageId |-> ref.storageId, blobId |-> ref.blobId,
             contentType |-> GetMimeType(p), deploymentId |-> 1]) :
        ref \in LibRefs}

\* the registries with at most one row per path, in either insertion order
LibTables ==
    {<<>>}
        \cup {<<r>> : r \in UNION {LibRows(p) : p \in LibPaths}}
        \cup {<<r, t>> : r \in LibRows("/index.html"), t \in LibRows("/app.js")}
        \cup {<<t, r>> : r \in LibRows("/index.html"), t \in LibRows("/app.js")}

InitRecord ==
    /\ staticAssets \in LibTables
    /\ deploymentInfo \in {<<>>, <<[currentDeploymentId |-> 1, deployedAt |-> 1]>>}
    /\ storage = {}
    /\ cdn = {}
    /\ clock = 1
    /\ pc = "idle"
    /\ runs = 0
    /\ deploymentId = Null
    /\ files = <<>>
    /\ useCdn = FALSE
    /\ concurrency = 1
    /\ idx = 0
    /\ pending = {}
    /\ storageIds = <<>>
    /\ allAssets = <<>>
    /\ oldBlobIds = <<>>
    /\ prior = {}
    /\ stoppedAt = ""
    /\ failure = FALSE
    /\ lastCall = NoCall
    /\ ret = NoRet
    /\ request = NoRequest
    /\ other = IdleProcess
    /\ client = FreshPage(TRUE, 1)

\* the one call of the behaviour
RecordOnce(p, sid, bid, ct, d) ==
    /\ lastCall.op = "none"
    /\ CallRecordAsset(p, sid, bid, ct, d)

NextRecord ==
    \E p \in LibPaths, ref \in LibRefs, ct \in ContentTypes,
       d \in LibDeploymentIds :
         RecordOnce(p, ref.storageId, ref.blobId, ct, d)

SpecRecord == InitRecord /\ [][NextRecord]_vars

\* the arguments a direct caller passes to recordAsset for path p
RecordArgs(p) ==
    {[path |-> p, storageId |-> ref.storageId, blobId |-> ref.blobId,
      contentType |-> ct, deploymentId |-> d] :
        ref \in LibRefs, ct \in ContentTypes, d \in LibDeploymentIds}

\* the arguments of the call a step has made
ArgsOf(call) ==
    [path |-> call.path, storageId |-> call.storageId, blobId |-> call.blobId,
     contentType |-> call.contentType, deploymentId |-> call.deploymentId]

\* the rows of a table at the paths other than p, in the table's order
RowsElsewhere(table, p) == SelectSeq(table, LAMBDA r : r.path # p)

\* recordAsset(a) then recordAsset(b) on table gives the rows and the return
\* values that recordAsset(b) then recordAsset(a) gives
Commute(table, a, b) ==
    LET a1 == RecordAsset(table, a)
        ab == RecordAsset(a1.table, b)
        b1 == RecordAsset(table, b)
        ba == RecordAsset(b1.table, a)
    IN  /\ SeqToSet(ab.table) = SeqToSet(ba.table)
        /\ Len(ab.table) = Len(ba.table)
        /\ a1.ret = ba.ret
        /\ b1.ret = ab.ret
        /\ a1.threw = ba.threw
        /\ b1.threw = ab.threw

\* C34: two recordAsset calls on different paths commute (the same rows and
\* the same return values in either order), and a recordAsset on p leaves
\* the rows at every other path and the deploymentInfo record unchanged.
C34_RecordAssetIndependent ==
    [][StepIs("recordAsset") =>
          LET a == ArgsOf(lastCall')
          IN  /\ staticAssets' = RecordAsset(staticAssets, a).table
              /\ RowsElsewhere(staticAssets', a.path)
                    = RowsElsewhere(staticAssets, a.path)
              /\ deploymentInfo' = deploymentInfo
              /\ \A q \in LibPaths \ {a.path} :
                    \A b \in RecordArgs(q) :
                        Commute(staticAssets, a, b)]_vars

\* a recordAsset on /app.js has replaced a row while /index.html has a row
\* and the pointer record exists
C34_Witness ==
    /\ lastCall.op = "recordAsset"
    /\ lastCall.path = "/app.js"
    /\ ret.oldStorageId # Null
    /\ RowsAt(staticAssets, "/index.html") = 1
    /\ RowsAt(staticAssets, "/app.js") = 1
    /\ deploymentInfo # <<>>

\* ------------------------------------------------------------------------
\* The upload step of next-build: src/src/cli/next-build.ts, main() Step 6.
\* The paths of the model stand for the files under .next/static.
\* ------------------------------------------------------------------------
TarballPath == "/__next_modules__.tar.gz"
GzipType == "application/gzip"

\* the storageId the upload of the tarball is answered with in this run
TarballId == MaxRuns * Len(PathOrder) + deploymentId

\* main() up to the call of uploadModulesTarball, with a fresh deploymentId
NbStart(present) ==
    /\ pc \in {"idle", "nbDone"}
    /\ runs < MaxRuns
    /\ runs' = runs + 1
    /\ deploymentId' = runs + 1
    /\ files' = CollectFiles(PathOrder, present)
    /\ useCdn' = FALSE
    /\ concurrency' = DefaultConcurrency
    /\ idx' = 0
    /\ pending' = {}
    /\ storageIds' = <<>>
    /\ allAssets' = <<>>
    /\ oldBlobIds' = <<>>
    /\ prior' = {staticAssets[k].path : k \in 1..Len(staticAssets)}
    /\ stoppedAt' = ""
    /\ failure' = FALSE
    /\ pc' = "nbTarball"
    /\ UNCHANGED backendVars
    /\ UNCHANGED <<libVars, siteVars>>

\* enqueue(), called k times: a task is started for each of the next files
\* unless failed is set or the iterator is done
Enqueue(k, started, pend, failed, total) ==
    LET n == IF failed THEN 0 ELSE Min(k, total - started)
    IN  [idx |-> started + n,
         pending |-> pend \cup ((started + 1)..(started + n))]

\* main() after uploadModulesTarball has returned or thrown: uploadStaticFiles
\* up to its first await.  Without files it returns at once and main() ends.
NbEnterStatic ==
    IF files = <<>>
    THEN /\ pc' = "nbDone"
         /\ UNCHANGED <<idx, pending, storageIds>>
    ELSE LET e == Enqueue(concurrency, 0, {}, FALSE, Len(files))
         IN  /\ idx' = e.idx
             /\ pending' = e.pending
             /\ storageIds' = [k \in 1..Len(files) |-> Null]
             /\ pc' = "nbPool"

\* uploadModulesTarball: the upload of the tarball is answered with a storageId
NbTarballUploadOk ==
    /\ pc = "nbTarball"
    /\ storage' = storage \cup {TarballId}
    /\ pc' = "nbTarballRecord"
    /\ UNCHANGED <<runs, deploymentId, files, useCdn, concurrency, idx,
                   pending, storageIds, allAssets, oldBlobIds, prior,
                   stoppedAt, failure>>
    /\ UNCHANGED <<staticAssets, deploymentInfo, cdn, clock>>
    /\ UNCHANGED <<libVars, siteVars>>

\* uploadModulesTarball: recordAsset of the tarball returns, under the
\* deploymentId of the run; main() goes on to the static files
NbTarballRecordOk ==
    /\ pc = "nbTarballRecord"
    /\ LET r == ApiRecordAsset(staticAssets, storage,
                               [path |-> TarballPath, storageId |-> TarballId,
                                blobId |-> Null, contentType |-> GzipType,
                                deploymentId |-> deploymentId])
       IN  /\ staticAssets' = r.table
           /\ storage' = r.storage
    /\ NbEnterStatic
    /\ UNCHANGED <<runs, deploymentId, files, useCdn, concurrency, allAssets,
                   oldBlobIds, prior, stoppedAt, failure>>
    /\ UNCHANGED <<deploymentInfo, cdn, clock>>
    /\ UNCHANGED <<libVars, siteVars>>

\* uploadModulesTarball throws (node_modules missing, a convex run call or
\* the fetch rejects): main() catches, prints and goes on to the static files
NbTarballFails ==
    /\ pc \in {"nbTarball", "nbTarballRecord"}
    /\ stoppedAt' = pc
    /\ NbEnterStatic
    /\ UNCHANGED <<runs, deploymentId, files, useCdn, concurrency, allAssets,
                   oldBlobIds, prior, failure>>
    /\ UNCHANGED backendVars
    /\ UNCHANGED <<libVars, siteVars>>

\* uploadSingleFile of task t: the upload is answered with a storageId
NbTaskUploadOk(t) ==
    /\ pc \in {"nbPool", "nbAbandoned"}
    /\ t \in pending
    /\ storageIds[t] = Null
    /\ storage' = storage \cup {FreshId(files[t].path)}
    /\ storageIds' = [storageIds EXCEPT ![t] = FreshId(files[t].path)]
    /\ UNCHANGED <<pc, runs, deploymentId, files, useCdn, concurrency, idx,
                   pending, allAssets, oldBlobIds, prior, stoppedAt, failure>>
    /\ UNCHANGED <<staticAssets, deploymentInfo, cdn, clock>>
    /\ UNCHANGED <<libVars, siteVars>>

\* uploadSingleFile of task t: recordAsset returns and the task fulfils.
\* Promise.race resolves, the orchestrator calls enqueue() and leaves the
\* loop for gcOldAssets when nothing is pending; after uploadStaticFiles has
\* thrown nobody waits for the task
NbTaskRecordOk(t) ==
    /\ pc \in {"nbPool", "nbAbandoned"}
    /\ t \in pending
    /\ storageIds[t] # Null
    /\ LET r == ApiRecordAsset(staticAssets, storage,
                               [path |-> files[t].path,
                                storageId |-> storageIds[t],
                                blobId |-> Null,
                                contentType |-> files[t].contentType,
                                deploymentId |-> deploymentId])
       IN  /\ staticAssets' = r.table
           /\ storage' = r.storage
    /\ LET e == Enqueue(1, idx, pending \ {t}, pc = "nbAbandoned",
                        Len(files))
       IN  /\ idx' = e.idx
           /\ pending' = e.pending
           /\ pc' = IF e.pending # {} THEN pc
                    ELSE IF pc = "nbPool" THEN "nbGc" ELSE "nbDone"
    /\ UNCHANGED <<runs, deploymentId, files, useCdn, concurrency, storageIds,
                   allAssets, oldBlobIds, prior, stoppedAt, failure>>
    /\ UNCHANGED <<deploymentInfo, cdn, clock>>
    /\ UNCHANGED <<libVars, siteVars>>

\* task t rejects: failed is set, Promise.race rejects, uploadStaticFiles
\* throws, main() catches and prints; the tasks in flight go on until the
\* process ends
NbTaskRejects(t) ==
    /\ pc \in {"nbPool", "nbAbandoned"}
    /\ t \in pending
    /\ failure' = TRUE
    /\ stoppedAt' = IF pc = "nbPool" THEN pc ELSE stoppedAt
    /\ pending' = pending \ {t}
    /\ pc' = IF pending \ {t} # {} THEN "nbAbandoned" ELSE "nbDone"
    /\ UNCHANGED <<runs, deploymentId, files, useCdn, concurrency, idx,
                   storageIds, allAssets, oldBlobIds, prior>>
    /\ UNCHANGED backendVars
    /\ UNCHANGED <<libVars, siteVars>>

\* gcOldAssets(deploymentId) returns; uploadStaticFiles returns, main() ends
NbGcOk ==
    /\ pc = "nbGc"
    /\ LET r == ApiGcOldAssets(staticAssets, deploymentInfo, storage,
                               deploymentId, clock + 1)
       IN  /\ staticAssets' = r.table
           /\ storage' = r.storage
           /\ deploymentInfo' = r.info
    /\ clock' = clock + 1
    /\ pc' = "nbDone"
    /\ UNCHANGED <<runs, deploymentId, files, useCdn, concurrency, idx,
                   pending, storageIds, allAssets, oldBlobIds, prior,
                   stoppedAt, failure>>
    /\ UNCHANGED cdn
    /\ UNCHANGED <<libVars, siteVars>>

\* the gcOldAssets call rejects: main() catches and prints
NbGcFails ==
    /\ pc = "nbGc"
    /\ pc' = "nbDone"
    /\ stoppedAt' = pc
    /\ failure' = TRUE
    /\ UNCHANGED <<runs, deploymentId, files, useCdn, concurrency, idx,
                   pending, storageIds, allAssets, oldBlobIds, prior>>
    /\ UNCHANGED backendVars
    /\ UNCHANGED <<libVars, siteVars>>

NextNextBuild ==
    \/ \E present \in SUBSET Paths : NbStart(present)
    \/ NbTarballUploadOk
    \/ NbTarballRecordOk
    \/ NbTarballFails
    \/ \E t \in pending : NbTaskUploadOk(t)
    \/ \E t \in pending : NbTaskRecordOk(t)
    \/ \E t \in pending : NbTaskRejects(t)
    \/ NbGcOk
    \/ NbGcFails

SpecNextBuild == Init /\ [][NextNextBuild]_vars

\* the upload step of the run has run gcOldAssets
NbSwept == pc = "nbDone" /\ CurrentDeploymentId = deploymentId

\* C35: whenever the upload step of next-build has run gcOldAssets, the
\* registry afterwards has a row for /__next_modules__.tar.gz, also when the
\* upload of the tarball failed in that run.
C35_TarballSurvivesSweep ==
    NbSwept => \E k \in 1..Len(staticAssets) :
                  staticAssets[k].path = TarballPath

\* ------------------------------------------------------------------------
\* Dismissal of the update banner (SpecClient)
\* ------------------------------------------------------------------------
Dismissed == client'.lastEvent = "dismiss" /\ client' # client

\* C38: dismiss sets updateAvailable to false and stores the deployment id
\* observed at that moment; updateAvailable stays false as long as the
\* observed id is the stored one and becomes true again only when the effect
\* runs for an observed id that differs from it.
C38_DismissUntilNextDeploy ==
    [][/\ Dismissed =>
            /\ ~client'.updateAvailable
            /\ client'.initialDeploymentId = ObservedId
            /\ client'.deployment = client.deployment
       /\ (~client.updateAvailable /\ client'.updateAvailable) =>
            /\ EffectRan
            /\ Captured
            /\ ObservedId # client.initialDeploymentId
       /\ (Captured /\ ~client.updateAvailable /\ EffectRan
            /\ ObservedId = client.initialDeploymentId) =>
                ~client'.updateAvailable]_vars

\* the banner was dismissed at deployment 2 and is up again for deployment 1
C38_Witness ==
    /\ client.loads = 1
    /\ client.initialDeploymentId = 2
    /\ ObservedId = 1
    /\ client.updateAvailable
    /\ client.lastEvent = "effect"

\* ------------------------------------------------------------------------
\* The diagnostic enumeration: query listAssets of src/src/component/lib.ts,
\* called on registries of a few rows and of about a hundred rows (SpecList)
\* ------------------------------------------------------------------------
\* args.limit is optional
Undefined == -1
DefaultLimit == 100

\* listAssets that takes every row when no limit is given
ListAssets_NoDefault(table, limit) ==
    SubSeq(table, 1, Min(Len(table),
                         IF limit = Undefined THEN Len(table) ELSE limit))

\* .order("asc").take(args.limit ?? 100): the table is in creation order
ListAssets(table, limit) ==
    SubSeq(table, 1, Min(Len(table),
                         IF limit = Undefined THEN DefaultLimit ELSE limit))

\* the registry after recordAsset was called for n files, one after another
ManyRows(n) ==
    [k \in 1..n |->
        NewDoc([path |-> "/f" \o ToString(k), storageId |-> k,
                blobId |-> Null, contentType |-> JsType,
                deploymentId |-> 1])]

ListSizes == {0, 1, 2, 3, 4, DefaultLimit - 1, DefaultLimit, DefaultLimit + 1,
              DefaultLimit + 2}
ListLimits == {Undefined, 0, 1, 2, 3, 4, 5, DefaultLimit - 1, DefaultLimit,
               DefaultLimit + 1, DefaultLimit + 2, 2 * DefaultLimit}

InitList ==
    /\ \E n \in ListSizes :
          /\ staticAssets = ManyRows(n)
          /\ storage = 1..n
    /\ deploymentInfo = <<>>
    /\ cdn = {}
    /\ clock = 0
    /\ pc = "idle"
    /\ runs = 0
    /\ deploymentId = Null
    /\ files = <<>>
    /\ useCdn = FALSE
    /\ concurrency = 1
    /\ idx = 0
    /\ pending = {}
    /\ storageIds = <<>>
    /\ allAssets = <<>>
    /\ oldBlobIds = <<>>
    /\ prior = {}
    /\ stoppedAt = ""
    /\ failure = FALSE
    /\ lastCall = NoCall
    /\ ret = NoRet
    /\ request = NoRequest
    /\ other = IdleProcess
    /\ client = FreshPage(TRUE, 1)

\* a caller runs the query
CallListAssets(limit) ==
    /\ lastCall' = [NoCall EXCEPT !.op = "listAssets"]
    /\ ret' = [limit |-> limit, assets |-> ListAssets(staticAssets, limit)]
    /\ UNCHANGED backendVars
    /\ UNCHANGED <<runVars, siteVars>>

NextList == \E limit \in ListLimits : CallListAssets(limit)

SpecList == InitList /\ [][NextList]_vars

\* C39: listAssets(limit) returns the rows of the registry in insertion
\* order, as many as there are up to limit, and up to 100 when no limit is
\* given; on an empty registry it returns the empty list.
C39_ListAssets ==
    lastCall.op = "listAssets" =>
        LET cap == IF ret.limit = Undefined THEN 100 ELSE ret.limit
        IN  /\ Len(ret.assets) <= cap
            /\ Len(ret.assets) = Min(Len(staticAssets), cap)
            /\ \A k \in 1..Len(ret.assets) : ret.assets[k] = staticAssets[k]
            /\ staticAssets = <<>> => ret.assets = <<>>

\* the query was called without a limit on a registry of 102 rows
C39_Witness ==
    /\ lastCall.op = "listAssets"
    /\ ret.limit = Undefined
    /\ Len(staticAssets) = 102
    /\ Len(ret.assets) = 100
    /\ ret.assets[100].path = "/f100"

====
